---- MODULE Spec2Model ----
(***************************************************************************)
(* Post categorization engine of the Piazza feedback aggregator            *)
(* (scraper/processor.py with the patterns of config.py).                  *)
(*                                                                         *)
(* Texts are strings; a character is a string of length 1.  The regular    *)
(* expressions of config.py are sequences of atoms, matched by a           *)
(* backtracking matcher that tries the alternatives of every atom in the   *)
(* order Python's re module tries them.                                    *)
(***************************************************************************)
EXTENDS Integers, Sequences, FiniteSets, TLC

VARIABLES
    pset_patterns,      \* DataProcessor.pset_patterns (set by __init__)
    problem_patterns,   \* DataProcessor.problem_patterns (set by __init__)
    posts,              \* the list of posts handed to the processor
    categorized,        \* the caller's tree (main.py: categorized = processor. ...)
    pset,               \* the value returned by the latest _extract_pset
    problem,            \* the value returned by the latest _extract_problem
    result,             \* the value returned by the latest call of a public method
    last,               \* the method that ran last
    store,              \* the dict and list objects behind the trees (SpecStore)
    fetch,              \* the scraper, the feed and the --limit of the run (SpecLimit)
    auth,               \* the PiazzaAuth object and the outcome of its latest call (SpecAuth)
    calls,              \* the analyze_problem calls of the latest analyze_all (SpecAnalyze)
    run                 \* the command of main.py that runs: its position, files and codes

vars == <<pset_patterns, problem_patterns, posts, categorized, pset, problem, result, last,
          store, fetch, auth, calls, run>>

-----------------------------------------------------------------------------
(* Characters and character classes (re with re.IGNORECASE).               *)

LowerLetters == "abcdefghijklmnopqrstuvwxyz"
UpperLetters == "ABCDEFGHIJKLMNOPQRSTUVWXYZ"

CharAt(s, i) == SubSeq(s, i, i)

\* the characters of a string, as a set
Chars(s) == {CharAt(s, i) : i \in 1..Len(s)}

DigitChars == Chars("0123456789")
SpaceChars == {" ", "\t", "\n"}
LowerChars == Chars(LowerLetters)
UpperChars == Chars(UpperLetters)

\* str.lower() of one character
ToLower ==
    [c \in UpperChars |->
        CharAt(LowerLetters, CHOOSE i \in 1..Len(UpperLetters) : CharAt(UpperLetters, i) = c)]

LowerChar(c) == IF c \in UpperChars THEN ToLower[c] ELSE c

\* str.lower(), character by character (by halves)
RECURSIVE Lower(_)
Lower(s) ==
    IF Len(s) = 0 THEN ""
    ELSE IF Len(s) = 1 THEN LowerChar(s)
    ELSE LET h == Len(s) \div 2
         IN  Lower(SubSeq(s, 1, h)) \o Lower(SubSeq(s, h + 1, Len(s)))

IsDigit(c) == c \in DigitChars          \* \d
IsSpace(c) == c \in SpaceChars          \* \s

\* the length of the longest run of characters of the class starting at i
RECURSIVE Run(_, _, _)
Run(class, s, i) ==
    IF i <= Len(s) /\ CharAt(s, i) \in class THEN 1 + Run(class, s, i + 1) ELSE 0

-----------------------------------------------------------------------------
(* Regular expressions: a pattern is a sequence of atoms.                  *)
(*   lit     one of the literal alternatives, tried in the written order   *)
(*   ws      \s*            digits     \d+            optdot   \.?         *)
(*   optfrac (?:\.\d+)?     optletter  (?:[a-z])?                          *)
(*   open, close            the parentheses of capturing group 1           *)

Lit(alts) == [t |-> "lit", alts |-> alts]
Atom(t) == [t |-> t, alts |-> <<>>]

\* r"pset\s*(\d+)" and the other assignment patterns: prefix words separated by \s*
Number == <<Atom("open"), Atom("digits"), Atom("close")>>
\* (\d+(?:\.\d+)?(?:[a-z])?)
Token == <<Atom("open"), Atom("digits"), Atom("optfrac"), Atom("optletter"), Atom("close")>>

PSET_PATTERNS ==
    << <<Lit(<<"pset">>), Atom("ws")>> \o Number,
       <<Lit(<<"problem">>), Atom("ws"), Lit(<<"set">>), Atom("ws")>> \o Number,
       <<Lit(<<"hw">>), Atom("ws")>> \o Number,
       <<Lit(<<"homework">>), Atom("ws")>> \o Number,
       <<Lit(<<"assignment">>), Atom("ws")>> \o Number >>

PROBLEM_PATTERNS ==
    << <<Lit(<<"problem", "q", "question", "part">>), Atom("ws")>> \o Token,
       <<Lit(<<"prob", "p">>), Atom("optdot"), Atom("ws")>> \o Token,
       <<Lit(<<"(">>)>> \o Token \o <<Lit(<<")">>)>> >>

\* re.compile(p, flags): the atoms with the IGNORECASE flag
Compile(p, ignorecase) == [atoms |-> p, ignorecase |-> ignorecase]

\* the text as the matcher compares it: lower-cased under IGNORECASE
Fold(re, s) == IF re.ignorecase THEN Lower(s) ELSE s

\* positions after a run of n characters at i, longest first (greedy), down to
\* least characters
Greedy(i, n, least) == [j \in 1..(n - least + 1) |-> i + n + 1 - j]

\* the literal alternatives that match the folded text f at i, in the written order
LitEnds(re, alts, f, i) ==
    LET Hit(k) == /\ i + Len(alts[k]) - 1 <= Len(f)
                  /\ SubSeq(f, i, i + Len(alts[k]) - 1) = Fold(re, alts[k])
        idx == SelectSeq([k \in 1..Len(alts) |-> k], Hit)
    IN  [j \in 1..Len(idx) |-> i + Len(alts[idx[j]])]

\* The positions at which atom a, started at i of the folded text f, can end,
\* in the order in which the backtracking matcher tries them.
Ends(re, a, f, i) ==
    CASE a.t = "lit" -> LitEnds(re, a.alts, f, i)
      [] a.t = "ws" -> Greedy(i, Run(SpaceChars, f, i), 0)
      [] a.t = "digits" -> Greedy(i, Run(DigitChars, f, i), 1)
      [] a.t = "optdot" ->
            IF i <= Len(f) /\ CharAt(f, i) = "." THEN <<i + 1, i>> ELSE <<i>>
      [] a.t = "optfrac" ->
            IF i <= Len(f) /\ CharAt(f, i) = "."
            THEN Greedy(i + 1, Run(DigitChars, f, i + 1), 1) \o <<i>>
            ELSE <<i>>
      [] a.t = "optletter" ->
            \* [a-z]: the folded character of an upper-case letter is in range
            IF i <= Len(f) /\ CharAt(f, i) \in LowerChars THEN <<i + 1, i>> ELSE <<i>>

NoMatch == [ok |-> FALSE, group |-> "", start |-> 0]

\* "match = ...; if match: return ..." and then the next attempt: match m when
\* it is one, else what the next attempt gives
OrElse(m, next) == IF m.ok THEN m ELSE next

\* pattern.match at position i from atom k on: s is the text, f the folded text,
\* i0 the start of the match, g the bounds of group 1
RECURSIVE MatchAt(_, _, _, _, _, _, _), TryEnds(_, _, _, _, _, _, _, _)
MatchAt(re, k, s, f, i, i0, g) ==
    IF k > Len(re.atoms)
    THEN [ok |-> TRUE, group |-> SubSeq(s, g.b, g.e - 1), start |-> i0]
    ELSE LET a == re.atoms[k] IN
         CASE a.t = "open" -> MatchAt(re, k + 1, s, f, i, i0, [g EXCEPT !.b = i])
           [] a.t = "close" -> MatchAt(re, k + 1, s, f, i, i0, [g EXCEPT !.e = i])
           [] OTHER -> TryEnds(re, k, s, f, Ends(re, a, f, i), 1, i0, g)

TryEnds(re, k, s, f, ends, j, i0, g) ==
    IF j > Len(ends) THEN NoMatch
    ELSE OrElse(MatchAt(re, k + 1, s, f, ends[j], i0, g),
                TryEnds(re, k, s, f, ends, j + 1, i0, g))

Min(S) == CHOOSE x \in S : \A y \in S : x <= y

\* The positions at which a match can start: every position, of which only
\* those holding the first character of a literal can start a pattern that
\* begins with a literal.
Starts(re, f) ==
    LET a == re.atoms[1]
        first == {CharAt(Fold(re, a.alts[k]), 1) : k \in 1..Len(a.alts)}
    IN  IF a.t = "lit"
        THEN {i \in 1..Len(f) : CharAt(f, i) \in first}
        ELSE 1..(Len(f) + 1)

\* of the outcomes of matching at several positions, the match at the
\* leftmost position that has one
Leftmost(outcomes) ==
    LET hits == {m \in outcomes : m.ok}
    IN  IF hits = {} THEN NoMatch
        ELSE CHOOSE m \in hits : m.start = Min({h.start : h \in hits})

\* pattern.search on text s with folded text f
SearchFolded(re, s, f) ==
    Leftmost({MatchAt(re, 1, s, f, i, i, [b |-> 1, e |-> 1]) : i \in Starts(re, f)})

\* pattern.search(s): the match at the leftmost position that has one
Search(re, s) == SearchFolded(re, s, Fold(re, s))

-----------------------------------------------------------------------------
(* Python values.                                                          *)

\* None; "if pset:" is false for None and for the empty string alike
None == ""
Truthy(v) == v # None

\* dict.get(key, default) on a post record
Get(post, key, default) == IF key \in DOMAIN post THEN post[key] ELSE default

\* content without the slice
Prefix_whole(s, n) == s

\* content[:n + 1]
Prefix_one_more(s, n) == SubSeq(s, 1, IF Len(s) < n + 1 THEN Len(s) ELSE n + 1)

\* content[:n]
Prefix(s, n) == SubSeq(s, 1, IF Len(s) < n THEN Len(s) ELSE n)

\* A dict is the sequence of its <<key, value>> items in insertion order.
EmptyDict == <<>>
Keys(d) == [i \in 1..Len(d) |-> d[i][1]]
KeySet(d) == {d[i][1] : i \in 1..Len(d)}
Has(d, k) == k \in KeySet(d)
Item(d, k) == d[CHOOSE i \in 1..Len(d) : d[i][1] = k][2]
\* Put of a mapping that puts a new key first
Put_front(d, k, v) ==
    IF Has(d, k)
    THEN [i \in 1..Len(d) |-> IF d[i][1] = k THEN <<k, v>> ELSE d[i]]
    ELSE <<<<k, v>>>> \o d

\* d[k] = v: an existing key keeps its place, a new key goes last
Put(d, k, v) ==
    IF Has(d, k)
    THEN [i \in 1..Len(d) |-> IF d[i][1] = k THEN <<k, v>> ELSE d[i]]
    ELSE Append(d, <<k, v>>)
\* defaultdict access d[k]: the stored value, or the default
ItemOr(d, k, default) == IF Has(d, k) THEN Item(d, k) ELSE default

-----------------------------------------------------------------------------
(* DataProcessor                                                           *)

WindowPset == 500
WindowProblem == 300

\* FirstPatternFrom that takes, of the matches of all patterns, the one that
\* starts leftmost in the text
FirstPatternFrom_leftmost(patterns, text, k) ==
    Leftmost({Search(patterns[j], text) : j \in k..Len(patterns)})

\* "for pattern in patterns: match = pattern.search(text); if match: ..."
\* the match of the first pattern, from pattern k on, that matches text
RECURSIVE FirstPatternFrom(_, _, _)
FirstPatternFrom(patterns, text, k) ==
    IF k > Len(patterns) THEN NoMatch
    ELSE OrElse(Search(patterns[k], text), FirstPatternFrom(patterns, text, k + 1))

FirstPattern(patterns, text) == FirstPatternFrom(patterns, text, 1)

\* "for text in texts: for pattern in patterns: ..."
\* the match in the first text, from text j on, that any pattern matches
RECURSIVE FirstTextFrom(_, _, _)
FirstTextFrom(patterns, texts, j) ==
    IF j > Len(texts) THEN NoMatch
    ELSE OrElse(FirstPattern(patterns, texts[j]), FirstTextFrom(patterns, texts, j + 1))

\* FirstText with the loops the other way round: each pattern in turn is
\* tried on all the texts
RECURSIVE PatternMajorFrom(_, _, _)
PatternMajorFrom(patterns, texts, k) ==
    IF k > Len(patterns) THEN NoMatch
    ELSE OrElse(FirstTextFrom(<<patterns[k]>>, texts, 1),
                PatternMajorFrom(patterns, texts, k + 1))
FirstText_by_pattern(patterns, texts) == PatternMajorFrom(patterns, texts, 1)

FirstText(patterns, texts) == FirstTextFrom(patterns, texts, 1)

\* the matches of _extract_pset in the folders, the tags, the title and the
\* first WindowPset characters of the content
InFolders(patterns, post) == FirstText(patterns, Get(post, "folders", <<>>))
InTags(patterns, post) == FirstText(patterns, Get(post, "tags", <<>>))
InTitle(patterns, post) == FirstPattern(patterns, Get(post, "title", ""))
InContent(patterns, post, n) == FirstPattern(patterns, Prefix(Get(post, "content", ""), n))

\* the digits of a number without its leading zeros
RECURSIVE StripZeros(_)
StripZeros(d) ==
    IF Len(d) > 1 /\ CharAt(d, 1) = "0" THEN StripZeros(SubSeq(d, 2, Len(d))) ELSE d

\* return f"pset{match.group(1)}" of match m, or the value for no match
PsetName(m, none) == IF m.ok THEN "pset" \o m.group ELSE none
\* f"pset{int(match.group(1))}"
PsetNameInt(m, none) == IF m.ok THEN "pset" \o StripZeros(m.group) ELSE none
\* ProblemName without the prefix
ProblemName_bare(m) == IF m.ok THEN Lower(m.group) ELSE None
\* return f"problem{match.group(1).lower()}" of match m, or None
ProblemName(m) == IF m.ok THEN "problem" \o Lower(m.group) ELSE None
\* f"problem{match.group(1)}"
ProblemNameVerbatim(m) == IF m.ok THEN "problem" \o m.group ELSE None

\* _extract_pset that looks at the title before the folders and tags
_extract_pset_title_first(patterns, post) ==
    PsetName(OrElse(InTitle(patterns, post),
             OrElse(InFolders(patterns, post),
             OrElse(InTags(patterns, post),
                    InContent(patterns, post, WindowPset)))), None)

\* _extract_pset that reads the number as an integer
_extract_pset_int(patterns, post) ==
    PsetNameInt(OrElse(InFolders(patterns, post),
                OrElse(InTags(patterns, post),
                OrElse(InTitle(patterns, post),
                       InContent(patterns, post, WindowPset)))), None)

\* _extract_pset of a processor that remembers the assignment it found last
\* and gives it to a post without a match
_extract_pset_sticky(patterns, post) ==
    PsetName(OrElse(InFolders(patterns, post),
             OrElse(InTags(patterns, post),
             OrElse(InTitle(patterns, post),
                    InContent(patterns, post, WindowPset)))), pset)

\* folders, then tags, then title, then content[:500]; None without a match
_extract_pset(patterns, post) ==
    PsetName(OrElse(InFolders(patterns, post),
             OrElse(InTags(patterns, post),
             OrElse(InTitle(patterns, post),
                    InContent(patterns, post, WindowPset)))), None)

\* _extract_problem that searches the tags as well, after the folders
_extract_problem_with_tags(patterns, post) ==
    ProblemName(OrElse(InTitle(patterns, post),
                OrElse(InFolders(patterns, post),
                OrElse(InTags(patterns, post),
                       InContent(patterns, post, WindowProblem)))))

\* _extract_problem without .lower()
_extract_problem_verbatim(patterns, post) ==
    ProblemNameVerbatim(OrElse(InTitle(patterns, post),
                        OrElse(InFolders(patterns, post),
                               InContent(patterns, post, WindowProblem))))

\* title, then folders, then content[:300]; the tags are not searched
_extract_problem(patterns, post) ==
    ProblemName(OrElse(InTitle(patterns, post),
                OrElse(InFolders(patterns, post),
                       InContent(patterns, post, WindowProblem))))

\* ProblemKey with the key of the uncategorized bucket for the general bucket
ProblemKey_all(pr) == IF Truthy(pr) THEN pr ELSE "all"

\* the problem key of a post of an assignment: "if problem: ... else: ..."
ProblemKey(pr) == IF Truthy(pr) THEN pr ELSE "general"

\* AddPost with bucket.insert(0, post) for bucket.append(post)
AddPost_front(c, ps, key, post) ==
    LET problems == ItemOr(c, ps, EmptyDict)
        bucket == ItemOr(problems, key, <<>>)
    IN  Put(c, ps, Put(problems, key, <<post>> \o bucket))

\* categorized[ps][key].append(post) on the nested defaultdict c
AddPost(c, ps, key, post) ==
    LET problems == ItemOr(c, ps, EmptyDict)
        bucket == ItemOr(problems, key, <<>>)
    IN  Put(c, ps, Put(problems, key, Append(bucket, post)))

\* FilePost that files a post without an assignment under its problem
\* identifier, when it has one
FilePost_by_problem(acc, post, ps, pr) ==
    IF Truthy(ps)
    THEN [acc EXCEPT !.categorized = AddPost(@, ps, ProblemKey(pr), post)]
    ELSE IF Truthy(pr)
    THEN [acc EXCEPT !.categorized = AddPost(@, "uncategorized", pr, post)]
    ELSE [acc EXCEPT !.uncategorized = Append(@, post)]

\* "if pset: ... else: uncategorized.append(post)" for a post with assignment
\* ps and problem pr; acc holds the nested defaultdict categorized and the
\* list uncategorized
FilePost(acc, post, ps, pr) ==
    IF Truthy(ps)
    THEN [acc EXCEPT !.categorized = AddPost(@, ps, ProblemKey(pr), post)]
    ELSE [acc EXCEPT !.uncategorized = Append(@, post)]

\* the body of "for post in posts:" from post i on
RECURSIVE CategorizeLoop(_, _, _, _)
CategorizeLoop(self, list, i, acc) ==
    IF i > Len(list) THEN acc
    ELSE CategorizeLoop(self, list, i + 1,
                        FilePost(acc, list[i],
                                 _extract_pset(self.pset_patterns, list[i]),
                                 _extract_problem(self.problem_patterns, list[i])))

\* categorized = defaultdict(...); uncategorized = []
NothingFiled == [categorized |-> EmptyDict, uncategorized |-> <<>>]

\* StoreUncategorized that stores the list uncategorized also when it is empty
StoreUncategorized_always(acc) ==
    Put(acc.categorized, "uncategorized",
        Put(ItemOr(acc.categorized, "uncategorized", EmptyDict), "all", acc.uncategorized))

\* StoreUncategorized without "if uncategorized: ..."
StoreUncategorized_never(acc) == acc.categorized

\* "if uncategorized: categorized["uncategorized"]["all"] = uncategorized" and
\* "return dict(categorized)"
StoreUncategorized(acc) ==
    IF acc.uncategorized # <<>>
    THEN Put(acc.categorized, "uncategorized",
             Put(ItemOr(acc.categorized, "uncategorized", EmptyDict), "all",
                 acc.uncategorized))
    ELSE acc.categorized

categorize_posts(self, list) == StoreUncategorized(CategorizeLoop(self, list, 1, NothingFiled))

\* the posts of a dict of buckets, and of a tree, in the order of iteration
RECURSIVE PostsOf(_, _), PostsOfTree(_, _)
PostsOf(problems, j) ==
    IF j > Len(problems) THEN <<>> ELSE problems[j][2] \o PostsOf(problems, j + 1)
PostsOfTree(tree, i) ==
    IF i > Len(tree) THEN <<>> ELSE PostsOf(tree[i][2], 1) \o PostsOfTree(tree, i + 1)

\* CountResolved with post["is_resolved"] == resolved for posts that have the
\* field, and no count for the others
CountResolved_present(ps, resolved) ==
    Cardinality({k \in 1..Len(ps) :
                    "is_resolved" \in DOMAIN ps[k] /\ ps[k].is_resolved = resolved})

\* the number of posts of list ps for which "if post.get("is_resolved"):" is
\* true (resolved = TRUE) or false
CountResolved(ps, resolved) ==
    Cardinality({k \in 1..Len(ps) : Get(ps[k], "is_resolved", FALSE) = resolved})

\* SumLen that adds one for every post whose post.get(key) is not empty
RECURSIVE SumLen_posts(_, _, _)
SumLen_posts(ps, key, k) ==
    IF k > Len(ps) THEN 0
    ELSE (IF Get(ps[k], key, <<>>) # <<>> THEN 1 ELSE 0) + SumLen_posts(ps, key, k + 1)

\* the sum of len(post.get(key, [])) over the posts of list ps from post k on
RECURSIVE SumLen(_, _, _)
SumLen(ps, key, k) ==
    IF k > Len(ps) THEN 0 ELSE Len(Get(ps[k], key, <<>>)) + SumLen(ps, key, k + 1)

\* stats["posts_by_type"][post.get("type", "unknown")] += 1, from post k on
RECURSIVE TallyTypes(_, _, _)
TallyTypes(ps, k, d) ==
    IF k > Len(ps) THEN d
    ELSE LET ty == Get(ps[k], "type", "unknown")
         IN  TallyTypes(ps, k + 1, Put(d, ty, ItemOr(d, ty, 0) + 1))

\* TallyPsets with pset_count += 1 for every bucket
RECURSIVE TallyPsets_buckets(_, _, _)
TallyPsets_buckets(tree, i, d) ==
    IF i > Len(tree) THEN d
    ELSE TallyPsets_buckets(tree, i + 1, Put(d, tree[i][1], Len(tree[i][2])))

\* stats["posts_by_pset"][pset] = pset_count, from key i on
RECURSIVE TallyPsets(_, _, _)
TallyPsets(tree, i, d) ==
    IF i > Len(tree) THEN d
    ELSE TallyPsets(tree, i + 1, Put(d, tree[i][1], Len(PostsOf(tree[i][2], 1))))

\* get_statistics without "if pset != "uncategorized":"
get_statistics_every_key(tree) ==
    LET ps == PostsOfTree(tree, 1)
    IN  [ total_posts |-> Len(ps),
          total_psets |-> Len(tree),
          posts_by_pset |-> TallyPsets(tree, 1, EmptyDict),
          posts_by_type |-> TallyTypes(ps, 1, EmptyDict),
          resolved_count |-> CountResolved(ps, TRUE),
          unresolved_count |-> CountResolved(ps, FALSE),
          total_answers |-> SumLen(ps, "answers", 1),
          total_followups |-> SumLen(ps, "followups", 1) ]

get_statistics(tree) ==
    LET ps == PostsOfTree(tree, 1)
    IN  [ total_posts |-> Len(ps),
          total_psets |-> Cardinality({i \in 1..Len(tree) : tree[i][1] # "uncategorized"}),
          posts_by_pset |-> TallyPsets(tree, 1, EmptyDict),
          posts_by_type |-> TallyTypes(ps, 1, EmptyDict),
          resolved_count |-> CountResolved(ps, TRUE),
          unresolved_count |-> CountResolved(ps, FALSE),
          total_answers |-> SumLen(ps, "answers", 1),
          total_followups |-> SumLen(ps, "followups", 1) ]

\* StudentPosts with p.get("author_role") != "instructor" for the test
StudentPosts_not_instructor(ps) ==
    LET NotInstructor(post) == Get(post, "author_role", None) # "instructor"
    IN  SelectSeq(ps, NotInstructor)

\* StudentPosts with p.get("author_role", "student")
StudentPosts_by_default(ps) ==
    LET Student(post) == Get(post, "author_role", "student") \in {"student", "anonymous"}
    IN  SelectSeq(ps, Student)

\* [p for p in posts if p.get("author_role") in ["student", "anonymous"]]
StudentPosts(ps) ==
    LET Student(post) == Get(post, "author_role", None) \in {"student", "anonymous"}
    IN  SelectSeq(ps, Student)

\* FilterProblems without "if student_posts:"
RECURSIVE FilterProblems_keep_empty(_, _, _)
FilterProblems_keep_empty(problems, j, d) ==
    IF j > Len(problems) THEN d
    ELSE FilterProblems_keep_empty(problems, j + 1,
                                   Put(d, problems[j][1], StudentPosts(problems[j][2])))

\* the inner loop of filter_student_posts from problem j on; d is filtered[pset]
RECURSIVE FilterProblems(_, _, _)
FilterProblems(problems, j, d) ==
    IF j > Len(problems) THEN d
    ELSE LET student_posts == StudentPosts(problems[j][2])
         IN  FilterProblems(problems, j + 1,
                            IF student_posts # <<>>
                            THEN Put(d, problems[j][1], student_posts) ELSE d)

\* FilterLoop that leaves out an assignment none of whose posts is kept
RECURSIVE FilterLoop_drop_empty(_, _, _)
FilterLoop_drop_empty(tree, i, filtered) ==
    IF i > Len(tree) THEN filtered
    ELSE FilterLoop_drop_empty(tree, i + 1,
             IF FilterProblems(tree[i][2], 1, EmptyDict) = EmptyDict THEN filtered
             ELSE Put(filtered, tree[i][1], FilterProblems(tree[i][2], 1, EmptyDict)))

\* the outer loop of filter_student_posts from key i on
RECURSIVE FilterLoop(_, _, _)
FilterLoop(tree, i, filtered) ==
    IF i > Len(tree) THEN filtered
    ELSE FilterLoop(tree, i + 1,
                    Put(filtered, tree[i][1], FilterProblems(tree[i][2], 1, EmptyDict)))

filter_student_posts(tree) == FilterLoop(tree, 1, EmptyDict)

\* no objects followed: the trees are taken as values
NoStore == [heap |-> <<>>, tree |-> 0, given |-> 0]

\* no fetch followed: the posts are taken as fetched
NoFetch == [scraper |-> "", feed |-> <<>>, limit |-> <<>>]

\* no PiazzaAuth object followed
NoAuth == [email |-> None, password |-> None, _authenticated |-> FALSE, _session |-> None,
           rpc_session |-> None, returned |-> None, raised |-> None]

\* no analyze_problem call made
NoCalls == <<>>

\* no command of main.py has been started
NoRun ==
    [command |-> "", pc |-> "idle", session |-> FALSE, interactive |-> FALSE,
     api_key |-> FALSE, input |-> "", students_only |-> FALSE, existed |-> FALSE,
     files |-> <<>>, invoked |-> <<>>, scrape |-> <<>>, analyze |-> <<>>, code |-> <<>>]

\* the DataProcessor whose fields the variables hold
Self == [pset_patterns |-> pset_patterns, problem_patterns |-> problem_patterns]

\* DataProcessor.__init__
InitProcessor ==
    /\ pset_patterns = [k \in 1..Len(PSET_PATTERNS) |-> Compile(PSET_PATTERNS[k], TRUE)]
    /\ problem_patterns =
           [k \in 1..Len(PROBLEM_PATTERNS) |-> Compile(PROBLEM_PATTERNS[k], TRUE)]

-----------------------------------------------------------------------------
(* Inputs.                                                                 *)

MaxPosts == 2

\* n filler characters
RECURSIVE Pad(_)
Pad(n) ==
    IF n = 0 THEN ""
    ELSE IF n % 2 = 1 THEN "x" \o Pad(n - 1)
    ELSE LET h == Pad(n \div 2) IN h \o h

\* a post as the scrapers build it; BrowserScraper and APIScraper set no
\* author_role
Post(nr, folders, tags, title, content) ==
    [nr |-> nr, folders |-> folders, tags |-> tags, title |-> title, content |-> content]

\* the text of a content that names assignment 4 and problem 5
Ident == "pset4 q5"
\* where that text starts in a content (0-based offset): inside both windows,
\* inside the assignment window only, beyond both
Offsets == {0, 292, 300, 500, 600}

Folders == {<<>>, <<"logistics">>, <<"pset2 stuff">>, <<"exam", "hw3">>, <<"part 4">>}
Tags == {<<>>, <<"pset5">>, <<"q7">>}
Titles == {"", "random", "pset9 question", "Pset 1 Question 2a", "homework 3",
           "assignment 3 (2.3)", "problem set 3", "pset 3 Q2A", "pset01 q2", "pset1 p.2"}
Contents == {"", "no idea"} \cup {Pad(n) \o Ident : n \in Offsets}

\* one post of every shape
RichPosts ==
    {Post(1, f, t, ti, c) : f \in Folders, t \in Tags, ti \in Titles, c \in Contents}

\* the posts the lists of several posts are made of (less their numbers)
Shape(folders, tags, title, content, type, role, resolved, answers, followups) ==
    [folders |-> folders, tags |-> tags, title |-> title, content |-> content,
     type |-> type, author_role |-> role, is_resolved |-> resolved,
     answers |-> [k \in 1..answers |-> [type |-> "student", content |-> "a"]],
     followups |-> [k \in 1..followups |-> [content |-> "f", replies |-> <<>>]]]

ListPosts ==
    { Shape(<<>>, <<>>, "random", "", "note", "instructor", TRUE, 0, 0),
      Shape(<<>>, <<>>, "Q2A", "", "question", "student", FALSE, 0, 1),
      Shape(<<"hw3">>, <<>>, "random", "", "question", "anonymous", TRUE, 1, 0),
      Shape(<<"hw3">>, <<>>, "Q2A", "", "question", "student", TRUE, 2, 1),
      Shape(<<>>, <<"pset 3">>, "q2a", "", "question", "ta", FALSE, 0, 0),
      Shape(<<>>, <<>>, "pset 3 q2", "", "note", "student", TRUE, 0, 2),
      Shape(<<>>, <<>>, "pset3 (2.3)", "", "question", "instructor", FALSE, 1, 1),
      Shape(<<>>, <<>>, "pset1", "see pset3 part 2", "poll", "student", TRUE, 1, 0) }

\* the post of shape p that is number nr of a list
Numbered(p, nr) == ("nr" :> nr) @@ p

-----------------------------------------------------------------------------
(* The processor as a state machine.                                       *)

\* categorized = processor.categorize_posts(list)   (main.py, cmd_scrape)
CategorizePosts(list) ==
    /\ posts' = list
    /\ categorized' = categorize_posts(Self, list)
    /\ result' = categorized'
    /\ pset' = IF list = <<>> THEN pset
               ELSE _extract_pset(pset_patterns, list[Len(list)])
    /\ problem' = IF list = <<>> THEN problem
                  ELSE _extract_problem(problem_patterns, list[Len(list)])
    /\ last' = "categorize_posts"
    /\ UNCHANGED <<pset_patterns, problem_patterns, store, fetch, auth, calls, run>>

\* stats = processor.get_statistics(categorized)   (main.py, cmd_scrape)
GetStatistics ==
    /\ result' = get_statistics(categorized)
    /\ last' = "get_statistics"
    /\ UNCHANGED <<pset_patterns, problem_patterns, posts, categorized, pset, problem, store, fetch, auth, calls, run>>

\* categorized = processor.filter_student_posts(categorized)   (main.py, cmd_analyze)
FilterStudentPosts ==
    /\ categorized' = filter_student_posts(categorized)
    /\ result' = categorized'
    /\ last' = "filter_student_posts"
    /\ UNCHANGED <<pset_patterns, problem_patterns, posts, pset, problem, store, fetch, auth, calls, run>>

Init ==
    /\ InitProcessor
    /\ posts = <<>>
    /\ categorized = EmptyDict
    /\ pset = None
    /\ problem = None
    /\ result = None
    /\ last = "__init__"
    /\ store = NoStore
    /\ fetch = NoFetch
    /\ auth = NoAuth
    /\ calls = NoCalls
    /\ run = NoRun

\* The list of the next call is the list of the call before fetched again: as
\* it was, with its first post gone, or with one more post at its end.
NextLists(list) ==
    {list}
        \cup (IF list = <<>> THEN {}
              ELSE {[i \in 1..(Len(list) - 1) |-> [list[i + 1] EXCEPT !.nr = i]]})
        \cup (IF Len(list) >= MaxPosts THEN {}
              ELSE {Append(list, Numbered(p, Len(list) + 1)) : p \in ListPosts})

Next ==
    \/ \E list \in NextLists(posts) : CategorizePosts(list)
    \/ GetStatistics
    \/ FilterStudentPosts

Spec == Init /\ [][Next]_vars

\* one post of any shape, categorized on its own
InitExtract ==
    /\ InitProcessor
    /\ posts \in {<<p>> : p \in RichPosts}
    /\ categorized = EmptyDict
    /\ pset = None
    /\ problem = None
    /\ result = None
    /\ last = "__init__"
    /\ store = NoStore
    /\ fetch = NoFetch
    /\ auth = NoAuth
    /\ calls = NoCalls
    /\ run = NoRun

NextExtract == CategorizePosts(posts)

SpecExtract == InitExtract /\ [][NextExtract]_vars

-----------------------------------------------------------------------------
(* Reading a tree.                                                         *)

\* the places of a tree: assignment key a, problem key p, position k in the
\* bucket, and the post there
Entries(tree) ==
    UNION { UNION { { [a |-> tree[i][1], p |-> tree[i][2][j][1], k |-> k,
                       post |-> tree[i][2][j][2][k]] :
                        k \in 1..Len(tree[i][2][j][2]) } :
                    j \in 1..Len(tree[i][2]) } :
            i \in 1..Len(tree) }

\* no key occurs twice in a dict
UniqueKeys(d) == \A i, j \in 1..Len(d) : d[i][1] = d[j][1] => i = j

\* the tree is a dict of dicts
WellFormed(tree) ==
    /\ UniqueKeys(tree)
    /\ \A i \in 1..Len(tree) : UniqueKeys(tree[i][2])

\* the buckets, as <<assignment key, problem key>>, that hold the post
BucketsOf(tree, post) == {<<e.a, e.p>> : e \in {x \in Entries(tree) : x.post = post}}

Categorized == last = "categorize_posts"

\* what the extractors return for post i of the list
PsetOf(i) == _extract_pset(pset_patterns, posts[i])
ProblemOf(i) == _extract_problem(problem_patterns, posts[i])

-----------------------------------------------------------------------------
(* C1: the tree returned by categorize_posts holds every input post in     *)
(* exactly one place: each post of the list is at one position of one      *)
(* bucket, every place holds a post of the list, and the places are as     *)
(* many as the posts.                                                      *)
C1_EveryPostOnce ==
    Categorized =>
        /\ WellFormed(categorized)
        /\ \A i \in 1..Len(posts) :
              Cardinality({e \in Entries(categorized) : e.post = posts[i]}) = 1
        /\ \A e \in Entries(categorized) : \E i \in 1..Len(posts) : e.post = posts[i]
        /\ Cardinality(Entries(categorized)) = Len(posts)

\* two posts in two buckets, one of them uncategorized/all
C1_Witness ==
    /\ Categorized
    /\ Len(posts) = 2
    /\ Cardinality({<<e.a, e.p>> : e \in Entries(categorized)}) = 2
    /\ \E e \in Entries(categorized) : e.a = "uncategorized"

(* C2: a post without an assignment match is in uncategorized/all, with or *)
(* without a problem match, and adds no problem key: every problem key of  *)
(* the tree is "all" under uncategorized, or "general" or the problem      *)
(* identifier of a post with that assignment.                              *)
C2_NoAssignmentToUncategorized ==
    Categorized =>
        /\ \A i \in 1..Len(posts) :
              PsetOf(i) = None => BucketsOf(categorized, posts[i]) = {<<"uncategorized", "all">>}
        /\ \A i \in 1..Len(posts) :
              (/\ posts[i].title = "Q2A"
               /\ posts[i].folders = <<>> /\ posts[i].tags = <<>> /\ posts[i].content = "")
                  => BucketsOf(categorized, posts[i]) = {<<"uncategorized", "all">>}
        /\ \A e \in Entries(categorized) :
              \/ e.a = "uncategorized" /\ e.p = "all"
              \/ e.a # "uncategorized" /\ e.p = "general"
              \/ \E i \in 1..Len(posts) : PsetOf(i) = e.a /\ ProblemOf(i) = e.p

\* a post with problem identifier problem2a and no assignment match, next to
\* a post of pset3, in a tree without the key problem2a
C2_Witness ==
    /\ Categorized
    /\ \E i \in 1..Len(posts) :
          /\ PsetOf(i) = None /\ ProblemOf(i) = "problem2a"
          /\ BucketsOf(categorized, posts[i]) = {<<"uncategorized", "all">>}
    /\ \E e \in Entries(categorized) : e.a = "pset3"
    /\ \A e \in Entries(categorized) : e.p # "problem2a"

(* C3: a post with assignment A and no problem match is in A/general, a    *)
(* post with assignment A and problem P is in A/P, and in no other bucket. *)
C3_AssignmentBuckets ==
    Categorized =>
        \A i \in 1..Len(posts) :
            PsetOf(i) # None =>
                BucketsOf(categorized, posts[i]) =
                    {<<PsetOf(i), IF ProblemOf(i) = None THEN "general" ELSE ProblemOf(i)>>}

\* a post in pset3/general next to a post in pset3/problem2a
C3_Witness ==
    /\ Categorized
    /\ \E i, j \in 1..Len(posts) :
          /\ PsetOf(i) = "pset3" /\ ProblemOf(i) = None
          /\ BucketsOf(categorized, posts[i]) = {<<"pset3", "general">>}
          /\ PsetOf(j) = "pset3" /\ ProblemOf(j) = "problem2a"
          /\ BucketsOf(categorized, posts[j]) = {<<"pset3", "problem2a">>}

(* C4: within every bucket, uncategorized/all too, the posts are in the    *)
(* order of the input list (nr is the position in the list).               *)
C4_StableOrder ==
    Categorized =>
        \A e1, e2 \in Entries(categorized) :
            (e1.a = e2.a /\ e1.p = e2.p /\ e1.post.nr < e2.post.nr) => e1.k < e2.k

\* two posts of different shapes in uncategorized/all
C4_Witness ==
    /\ Categorized
    /\ Len(posts) = 2
    /\ posts[1].title # posts[2].title
    /\ categorized = <<<<"uncategorized", <<<<"all", <<posts[1], posts[2]>>>>>>>>>>

-----------------------------------------------------------------------------
(* Claims about the extractors: one post, categorized on its own.          *)

ThePost == posts[1]

\* some configured pattern matches the text
AnyPset(text) == \E k \in 1..Len(pset_patterns) : Search(pset_patterns[k], text).ok
AnyProblem(text) == \E k \in 1..Len(problem_patterns) : Search(problem_patterns[k], text).ok

\* the inputs without a match for an assignment, and for a problem
NoPsetFolders == {<<>>, <<"logistics">>, <<"part 4">>}
NoPsetTags == {<<>>, <<"q7">>}
NoPsetTitles == {"", "random"}
NoPsetContents == {"", "no idea"}
NoProblemFolders == {<<>>, <<"logistics">>, <<"pset2 stuff">>, <<"exam", "hw3">>}
NoProblemTitles == {"", "random", "pset9 question", "homework 3", "problem set 3"}
NoProblemContents == {"", "no idea"}

(* C5: _extract_pset searches folders, then tags, then the title, then the *)
(* first 500 characters of the content, and returns the identifier of the  *)
(* first source that any pattern matches; folders ["pset2 stuff"] with     *)
(* title "pset9 question" gives pset2.                                     *)
C5_PsetSourceOrder ==
    Categorized =>
        LET srcs == ThePost.folders \o ThePost.tags \o <<ThePost.title>>
                        \o <<Prefix(ThePost.content, WindowPset)>>
            hit == {j \in 1..Len(srcs) : AnyPset(srcs[j])}
        IN  /\ hit = {} => pset = None
            /\ hit # {} => pset = "pset" \o FirstPattern(pset_patterns, srcs[Min(hit)]).group
            /\ ThePost.folders = <<"pset2 stuff">> => pset = "pset2"
            /\ ThePost.folders = <<"exam", "hw3">> => pset = "pset3"
            /\ (ThePost.folders \in NoPsetFolders /\ ThePost.tags = <<"pset5">>)
                  => pset = "pset5"
            /\ (/\ ThePost.folders \in NoPsetFolders /\ ThePost.tags \in NoPsetTags
                /\ ThePost.title = "pset9 question") => pset = "pset9"
            /\ (/\ ThePost.folders \in NoPsetFolders /\ ThePost.tags \in NoPsetTags
                /\ ThePost.title \in NoPsetTitles /\ ThePost.content = Ident)
                  => pset = "pset4"
            /\ (/\ ThePost.folders \in NoPsetFolders /\ ThePost.tags \in NoPsetTags
                /\ ThePost.title \in NoPsetTitles /\ ThePost.content \in NoPsetContents)
                  => pset = None

\* every source names another assignment, and the folder wins
C5_Witness ==
    /\ Categorized
    /\ ThePost.folders = <<"pset2 stuff">>
    /\ ThePost.tags = <<"pset5">>
    /\ ThePost.title = "pset9 question"
    /\ ThePost.content = Ident
    /\ pset = "pset2"

(* C6: _extract_problem searches the title, then folders, then the first   *)
(* 300 characters of the content, first hit wins; tags are not searched: a *)
(* post with problem text in a tag only has no problem match and goes to   *)
(* <assignment>/general.                                                   *)
C6_ProblemSourceOrder ==
    Categorized =>
        LET srcs == <<ThePost.title>> \o ThePost.folders
                        \o <<Prefix(ThePost.content, WindowProblem)>>
            hit == {j \in 1..Len(srcs) : AnyProblem(srcs[j])}
        IN  /\ hit = {} => problem = None
            /\ hit # {} =>
                  problem = "problem"
                              \o Lower(FirstPattern(problem_patterns, srcs[Min(hit)]).group)
            /\ ThePost.title = "Pset 1 Question 2a" => problem = "problem2a"
            /\ (ThePost.title \in NoProblemTitles /\ ThePost.folders = <<"part 4">>)
                  => problem = "problem4"
            /\ (/\ ThePost.title \in NoProblemTitles /\ ThePost.folders \in NoProblemFolders
                /\ ThePost.content = Ident) => problem = "problem5"
            /\ (/\ ThePost.title \in NoProblemTitles /\ ThePost.folders \in NoProblemFolders
                /\ ThePost.content \in NoProblemContents)
                  => /\ problem = None
                     /\ pset # None => categorized = <<<<pset, <<<<"general", posts>>>>>>>>

\* problem text in the tag only: no problem, the post is in pset3/general
C6_Witness ==
    /\ Categorized
    /\ ThePost.tags = <<"q7">>
    /\ ThePost.title = "homework 3"
    /\ ThePost.folders = <<>>
    /\ ThePost.content = ""
    /\ problem = None
    /\ categorized = <<<<"pset3", <<<<"general", posts>>>>>>>>

(* C7: text at content offset 500 or later adds nothing to an assignment   *)
(* match and text at offset 300 or later nothing to a problem match: the   *)
(* post is treated as if the text were not there, so text wholly inside    *)
(* offsets 300..499 gives an assignment and no problem.                    *)
C7_ContentWindows ==
    Categorized =>
        \A n \in Offsets :
            ThePost.content = Pad(n) \o Ident =>
                LET without == [ThePost EXCEPT !.content = Pad(n)]
                    alone == /\ ThePost.folders \in NoPsetFolders \cap NoProblemFolders
                             /\ ThePost.tags \in NoPsetTags
                             /\ ThePost.title \in NoPsetTitles \cap NoProblemTitles
                IN  /\ n >= 500 => pset = _extract_pset(pset_patterns, without)
                    /\ n >= 300 => problem = _extract_problem(problem_patterns, without)
                    /\ (alone /\ n >= 500) => pset = None
                    /\ (alone /\ n < 500) => pset = "pset4"
                    /\ (alone /\ n >= 300) => problem = None
                    /\ (alone /\ n < 300) => problem = "problem5"
                    /\ (alone /\ n >= 500) =>
                          categorized = <<<<"uncategorized", <<<<"all", posts>>>>>>>>
                    /\ (alone /\ n >= 300 /\ n < 500) =>
                          categorized = <<<<"pset4", <<<<"general", posts>>>>>>>>

\* the text at offsets 300..307 and nothing else to match: pset4, no problem
C7_Witness ==
    /\ Categorized
    /\ ThePost.content = Pad(300) \o Ident
    /\ ThePost.folders = <<>> /\ ThePost.tags = <<>> /\ ThePost.title = "random"
    /\ pset = "pset4"
    /\ problem = None

\* the text d occurs in the text s
Occurs(d, s) == \E i \in 1..(Len(s) - Len(d) + 1) : SubSeq(s, i, i + Len(d) - 1) = d

AllDigits(d) == \A i \in 1..Len(d) : IsDigit(CharAt(d, i))

(* C8: the assignment identifier is "pset" and the number as the text has  *)
(* it, whichever pattern matched: hw3, homework 3, assignment 3, problem   *)
(* set 3 and pset 3 give pset3 and the one key pset3; pset01 and pset1     *)
(* give pset01 and pset1.                                                  *)
C8_PsetIdentifier ==
    Categorized =>
        LET number == SubSeq(pset, 5, Len(pset))
            fromTitle == ThePost.folders \in NoPsetFolders /\ ThePost.tags \in NoPsetTags
            Gives(title, id) ==
                (fromTitle /\ ThePost.title = title)
                    => (pset = id /\ Keys(categorized) = <<id>>)
        IN  /\ pset # None =>
                  /\ SubSeq(pset, 1, 4) = "pset"
                  /\ Len(number) > 0 /\ AllDigits(number)
                  /\ \/ \E j \in 1..Len(ThePost.folders) : Occurs(number, ThePost.folders[j])
                     \/ \E j \in 1..Len(ThePost.tags) : Occurs(number, ThePost.tags[j])
                     \/ Occurs(number, ThePost.title)
                     \/ Occurs(number, ThePost.content)
                  /\ Keys(categorized) = <<pset>>
            /\ ThePost.folders = <<"exam", "hw3">> => pset = "pset3"
            /\ Gives("homework 3", "pset3")
            /\ Gives("assignment 3 (2.3)", "pset3")
            /\ Gives("problem set 3", "pset3")
            /\ Gives("pset 3 Q2A", "pset3")
            /\ Gives("Pset 1 Question 2a", "pset1")
            /\ Gives("pset1 p.2", "pset1")
            /\ Gives("pset01 q2", "pset01")
            /\ Gives("pset9 question", "pset9")

\* the title pset01 q2 gives the key pset01
C8_Witness ==
    /\ Categorized
    /\ ThePost.folders = <<>> /\ ThePost.tags = <<>>
    /\ ThePost.title = "pset01 q2"
    /\ pset = "pset01"
    /\ categorized = <<<<"pset01", <<<<"problem2", posts>>>>>>>>

-----------------------------------------------------------------------------
(* Claims about lists of posts, continued.                                 *)

\* the problem key of each shape of ListPosts, by its title
ExpectedKey(title) ==
    CASE title = "random" -> "general"
      [] title = "Q2A" -> "problem2a"
      [] title = "q2a" -> "problem2a"
      [] title = "pset 3 q2" -> "problem2"
      [] title = "pset3 (2.3)" -> "problem2.3"
      [] title = "pset1" -> "problem2"

(* C9: the problem identifier is "problem" and the token in lower case,    *)
(* with its decimal part and trailing letter: Q2A and q2a of one           *)
(* assignment are in the one bucket problem2a; 2, 2a and 2.3 are three     *)
(* buckets.                                                                *)
C9_ProblemIdentifier ==
    Categorized =>
        /\ \A e \in Entries(categorized) :
              /\ e.a # "uncategorized" => e.p = ExpectedKey(e.post.title)
              /\ e.p \notin {"general", "all"} =>
                    (SubSeq(e.p, 1, 7) = "problem" /\ Lower(e.p) = e.p)
        /\ \A i \in 1..Len(posts) :
              /\ posts[i].title \in {"Q2A", "q2a"} => ProblemOf(i) = "problem2a"
              /\ posts[i].title = "pset 3 q2" => ProblemOf(i) = "problem2"
              /\ posts[i].title = "pset3 (2.3)" => ProblemOf(i) = "problem2.3"
        /\ \A i, j \in 1..Len(posts) :
              (posts[i].title = "Q2A" /\ posts[j].title = "q2a" /\ PsetOf(i) = PsetOf(j)
               /\ PsetOf(i) # None)
                  => BucketsOf(categorized, posts[i]) = BucketsOf(categorized, posts[j])

\* Q2A and q2a of pset3 in the one bucket problem2a
C9_Witness ==
    /\ Categorized
    /\ Len(posts) = 2
    /\ posts[1].title = "Q2A" /\ posts[2].title = "q2a"
    /\ categorized = <<<<"pset3", <<<<"problem2a", <<posts[1], posts[2]>>>>>>>>>>

\* two posts with the same folders, tags, title and content
SameShape(x, y) ==
    /\ x.folders = y.folders /\ x.tags = y.tags
    /\ x.title = y.title /\ x.content = y.content

(* C10: the bucket of a post depends on its folders, tags, title and       *)
(* content alone: posts of the same shape are in the same bucket, in one   *)
(* tree and in the trees of successive calls, whatever else the lists      *)
(* hold and whichever methods ran before; no call changes the patterns.    *)
C10_ContextFree ==
    [][ /\ pset_patterns' = pset_patterns
        /\ problem_patterns' = problem_patterns
        /\ last' = "categorize_posts" =>
              \A e1 \in Entries(categorized') :
                  \A e2 \in Entries(categorized') \cup Entries(categorized) :
                      SameShape(e1.post, e2.post) => (e1.a = e2.a /\ e1.p = e2.p) ]_vars

\* two posts of the same shape, first and second of a list, in the one
\* bucket pset3/problem2a
C10_Witness ==
    /\ Categorized
    /\ Len(posts) = 2
    /\ SameShape(posts[1], posts[2])
    /\ categorized = <<<<"pset3", <<<<"problem2a", <<posts[1], posts[2]>>>>>>>>>>

-----------------------------------------------------------------------------
(* Posts with absent fields.                                               *)

\* the fields the processor reads with post.get
Fields ==
    {"folders", "tags", "title", "content", "type", "is_resolved", "author_role",
     "answers", "followups"}

\* the post without the fields of set absent
Without(post, absent) == [k \in DOMAIN post \ absent |-> post[k]]

\* one post of any shape of ListPosts with any subset of its fields absent
InitMissing ==
    /\ InitProcessor
    /\ posts \in {<<Without(Numbered(p, 1), absent)>> : p \in ListPosts, absent \in SUBSET Fields}
    /\ categorized = EmptyDict
    /\ pset = None
    /\ problem = None
    /\ result = None
    /\ last = "__init__"
    /\ store = NoStore
    /\ fetch = NoFetch
    /\ auth = NoAuth
    /\ calls = NoCalls
    /\ run = NoRun

NextMissing ==
    \/ CategorizePosts(posts)
    \/ GetStatistics
    \/ FilterStudentPosts

SpecMissing == InitMissing /\ [][NextMissing]_vars

\* the values the code's post.get calls give for absent fields
Defaults ==
    [folders |-> <<>>, tags |-> <<>>, title |-> "", content |-> "", type |-> "unknown",
     is_resolved |-> FALSE, author_role |-> None, answers |-> <<>>, followups |-> <<>>]

\* the empty value of every field
EmptyValues == [Defaults EXCEPT !.type = ""]

\* the post with every absent field set to its value in d
Filled(post, d) ==
    [k \in Fields \cup DOMAIN post |-> IF k \in DOMAIN post THEN post[k] ELSE d[k]]

FilledList(list, d) == [i \in 1..Len(list) |-> Filled(list[i], d)]

FilledTree(tree, d) ==
    [i \in 1..Len(tree) |->
        <<tree[i][1],
          [j \in 1..Len(tree[i][2]) |->
              <<tree[i][2][j][1], FilledList(tree[i][2][j][2], d)>>]>>]

\* a step of a method treats the posts as it treats the posts filled with d
MissingAs(d) ==
    /\ last' = "categorize_posts" =>
          FilledTree(categorized', d) = categorize_posts(Self, FilledList(posts', d))
    /\ last' = "get_statistics" =>
          result' = get_statistics(FilledTree(categorized, d))
    /\ last' = "filter_student_posts" =>
          FilledTree(categorized', d) = filter_student_posts(FilledTree(categorized, d))

C12_NoEmptyKeys ==
    Categorized =>
        /\ \A i \in 1..Len(categorized) :
              /\ categorized[i][2] # EmptyDict
              /\ \A j \in 1..Len(categorized[i][2]) : categorized[i][2][j][2] # <<>>
        /\ Has(categorized, "uncategorized") => \E i \in 1..Len(posts) : PsetOf(i) = None
        /\ posts = <<>> => categorized = EmptyDict

\* two posts with an assignment each, in a tree without the key uncategorized
C12_Witness ==
    /\ Categorized
    /\ Len(posts) = 2
    /\ \A i \in 1..Len(posts) : PsetOf(i) # None
    /\ ~Has(categorized, "uncategorized")
    /\ Cardinality(Entries(categorized)) = 2

\* the places of a tree without the positions: <<assignment, problem, post>>
Placed(entries) == {<<e.a, e.p, e.post>> : e \in entries}

\* the entries whose post has one of the roles
ByRole(entries, roles) == {e \in entries : Get(e.post, "author_role", None) \in roles}

\* entries x before y in one bucket
Before(x, y) == x.a = y.a /\ x.p = y.p /\ x.k < y.k

(* C13: the tree filter_student_posts returns holds exactly the posts of   *)
(* the given tree whose author_role is student or anonymous, each under    *)
(* the key pair it had and once, in the order they had in their bucket,    *)
(* and no post of an instructor or a ta.                                   *)
C13_FilterKeepsStudents ==
    [][ last' = "filter_student_posts" =>
          /\ Placed(Entries(categorized')) =
                Placed(ByRole(Entries(categorized), {"student", "anonymous"}))
          /\ Cardinality(Entries(categorized')) =
                Cardinality(ByRole(Entries(categorized), {"student", "anonymous"}))
          /\ \A x, y \in Entries(categorized') :
                Before(x, y) =>
                    \E u, v \in Entries(categorized) :
                        u.post = x.post /\ v.post = y.post /\ Before(u, v)
          /\ ByRole(Entries(categorized'), {"instructor", "ta"}) = {} ]_vars

\* of a student's post and a ta's post in pset3/problem2a, the student's is kept
C13_Witness ==
    /\ last = "filter_student_posts"
    /\ Len(posts) = 2
    /\ posts[1].author_role = "student" /\ posts[2].author_role = "ta"
    /\ PsetOf(2) = "pset3" /\ ProblemOf(2) = "problem2a"
    /\ categorized = <<<<"pset3", <<<<"problem2a", <<posts[1]>>>>>>>>>>

(* C14: in the tree filter_student_posts returns every problem key has a   *)
(* non-empty list, and a bucket of the given tree none of whose posts is   *)
(* kept is not a key of the result.                                        *)
C14_EmptyBucketsOmitted ==
    [][ last' = "filter_student_posts" =>
          /\ \A i \in 1..Len(categorized') :
                \A j \in 1..Len(categorized'[i][2]) : categorized'[i][2][j][2] # <<>>
          /\ \A i \in 1..Len(categorized) :
                \A j \in 1..Len(categorized[i][2]) :
                    StudentPosts(categorized[i][2][j][2]) = <<>> =>
                        ~Has(ItemOr(categorized', categorized[i][1], EmptyDict),
                             categorized[i][2][j][1]) ]_vars

\* the one post of pset3/problem2a, a ta's, is filtered out: the assignment
\* key is left without problem keys
C14_Witness ==
    /\ last = "filter_student_posts"
    /\ Len(posts) = 1
    /\ posts[1].author_role = "ta"
    /\ PsetOf(1) = "pset3" /\ ProblemOf(1) = "problem2a"
    /\ categorized = <<<<"pset3", EmptyDict>>>>

(* C16: total_psets is the number of top-level keys of the tree other than *)
(* "uncategorized": that key adds nothing, however many posts it holds,    *)
(* and every other key adds one.                                           *)
C16_TotalPsets ==
    last = "get_statistics" =>
        /\ result.total_psets = Cardinality(KeySet(categorized) \ {"uncategorized"})
        /\ KeySet(categorized) = {"uncategorized"} => result.total_psets = 0
        /\ ~Has(categorized, "uncategorized") => result.total_psets = Len(categorized)

\* one post under uncategorized and one under pset3: one assignment
C16_Witness ==
    /\ last = "get_statistics"
    /\ KeySet(categorized) = {"uncategorized", "pset3"}
    /\ Len(ItemOr(ItemOr(categorized, "uncategorized", EmptyDict), "all", <<>>)) = 1
    /\ result.total_psets = 1
    /\ result.total_posts = 2

-----------------------------------------------------------------------------
(* Lists for the statistics: posts of pset1 followed by posts without an   *)
(* assignment.                                                             *)

MaxPset1 == 5
MaxUncategorized == 2

\* post i of pset1, resolved or not: problem 1 for odd i, no problem for even
\* i, with i % 3 answers and i % 2 followups
Pset1Post(i, resolved) ==
    Shape(<<"pset1">>, <<>>, IF i % 2 = 1 THEN "q1" ELSE "random", "",
          IF i % 2 = 1 THEN "question" ELSE "note", "student", resolved, i % 3, i % 2)

\* post i without an assignment
LoosePost(i, resolved) ==
    Shape(<<>>, <<>>, "random", "", "poll", "instructor", resolved, 2, 1)

\* n posts of pset1, the first r of them resolved, then u posts without an
\* assignment, the first ru of them resolved
StatList(n, r, u, ru) ==
    [i \in 1..(n + u) |->
        Numbered(IF i <= n THEN Pset1Post(i, i <= r) ELSE LoosePost(i, i - n <= ru), i)]

StatLists ==
    {StatList(n, r, u, ru) : n \in 0..MaxPset1, r \in 0..MaxPset1,
                             u \in 0..MaxUncategorized, ru \in 0..MaxUncategorized}

InitStats ==
    /\ InitProcessor
    /\ posts \in StatLists
    /\ categorized = EmptyDict
    /\ pset = None
    /\ problem = None
    /\ result = None
    /\ last = "__init__"
    /\ store = NoStore
    /\ fetch = NoFetch
    /\ auth = NoAuth
    /\ calls = NoCalls
    /\ run = NoRun

NextStats ==
    \/ CategorizePosts(posts)
    \/ GetStatistics
    \/ FilterStudentPosts

SpecStats == InitStats /\ [][NextStats]_vars

\* the entries of the tree with value v in field key
With(key, v) == {e \in Entries(categorized) : Get(e.post, key, None) = v}

\* the items of the lists in field key of the posts of the tree
ItemsOf(key) ==
    UNION {{<<e, k>> : k \in 1..Len(Get(e.post, key, <<>>))} : e \in Entries(categorized)}

\* the tree holds n posts of pset1, r of them resolved, and u uncategorized
\* posts, none of them resolved
TheTree(n, r, u) ==
    /\ Cardinality({e \in Entries(categorized) : e.a = "pset1"}) = n
    /\ Cardinality({e \in Entries(categorized) : e.a = "pset1" /\ e.post.is_resolved}) = r
    /\ Cardinality({e \in Entries(categorized) : e.a = "uncategorized"}) = u
    /\ Cardinality({e \in Entries(categorized) : e.a = "uncategorized" /\ e.post.is_resolved}) = 0
    /\ Cardinality(Entries(categorized)) = n + u

(* C17: every tally of get_statistics is the plain count over the posts of *)
(* all buckets, uncategorized included: posts, resolved posts, the others, *)
(* answers, followups, posts per type and posts per top-level key; 5 posts *)
(* of pset1, 3 of them resolved, and 2 uncategorized posts give            *)
(* total_psets 1, total_posts 7 and resolved_count 3.                      *)
C17_PlainTallies ==
    last = "get_statistics" =>
        /\ result.total_posts = Cardinality(Entries(categorized))
        /\ result.resolved_count = Cardinality(With("is_resolved", TRUE))
        /\ result.unresolved_count =
              Cardinality(Entries(categorized) \ With("is_resolved", TRUE))
        /\ result.total_answers = Cardinality(ItemsOf("answers"))
        /\ result.total_followups = Cardinality(ItemsOf("followups"))
        /\ KeySet(result.posts_by_type) = {e.post.type : e \in Entries(categorized)}
        /\ \A t \in KeySet(result.posts_by_type) :
              Item(result.posts_by_type, t) = Cardinality(With("type", t))
        /\ KeySet(result.posts_by_pset) = KeySet(categorized)
        /\ \A a \in KeySet(result.posts_by_pset) :
              Item(result.posts_by_pset, a) =
                  Cardinality({e \in Entries(categorized) : e.a = a})
        /\ TheTree(5, 3, 2) =>
              (result.total_psets = 1 /\ result.total_posts = 7 /\ result.resolved_count = 3)

\* the statistics of 5 posts of pset1, 3 of them resolved, and 2
\* uncategorized posts
C17_Witness ==
    /\ last = "get_statistics"
    /\ TheTree(5, 3, 2)
    /\ result.total_posts = 7
    /\ result.total_answers = 10
    /\ result.posts_by_pset = <<<<"pset1", 5>>, <<"uncategorized", 2>>>>

-----------------------------------------------------------------------------
(* The fetch stage: the three _parse_post methods that build the post      *)
(* records.  A raw post is the dict the Piazza API returns; an HTML value  *)
(* is the sequence of the text nodes html.parser finds in it.              *)

\* str.strip(): the text without the white space at its ends
RECURSIVE Strip(_)
Strip(s) ==
    IF Len(s) > 0 /\ IsSpace(CharAt(s, 1)) THEN Strip(SubSeq(s, 2, Len(s)))
    ELSE IF Len(s) > 0 /\ IsSpace(CharAt(s, Len(s))) THEN Strip(SubSeq(s, 1, Len(s) - 1))
    ELSE s

\* separator.join of two joined parts, an empty part being no part
JoinText(a, b) == IF a = "" THEN b ELSE IF b = "" THEN a ELSE a \o " " \o b

\* soup.get_text(separator=" ", strip=True): the stripped, non-empty text
\* nodes from node k on, joined by one space
RECURSIVE GetText(_, _)
GetText(nodes, k) ==
    IF k > Len(nodes) THEN "" ELSE JoinText(Strip(nodes[k]), GetText(nodes, k + 1))

\* _clean_html of PostFetcher, BrowserScraper and APIScraper
_clean_html(html_content) == IF html_content = <<>> THEN "" ELSE GetText(html_content, 1)

\* {}: a dict without keys
NoFields == <<>>

\* history[0] if history else {}
First(history) == IF history # <<>> THEN history[1] ELSE NoFields

\* PostFetcher._extract_author_role
_extract_author_role(post_data) ==
    IF /\ Get(post_data, "history", <<>>) # <<>>
       /\ Get(First(Get(post_data, "history", <<>>)), "anon", None) = "full"
    THEN "anonymous"
    ELSE IF /\ Get(post_data, "history", <<>>) # <<>>
            /\ Truthy(Get(First(Get(post_data, "history", <<>>)), "uid", None))
            /\ Get(post_data, "bucket_name", None) = "Instructors"
    THEN "instructor"
    ELSE "student"

\* child.get("type") in ["i_answer", "s_answer"]
IsAnswer(child) == Get(child, "type", None) \in {"i_answer", "s_answer"}
IsFollowup(child) == Get(child, "type", None) = "followup"
IsFeedback(reply) == Get(reply, "type", None) = "feedback"

\* history[0].get("content", "") if history else "", cleaned
AnswerContent(child) ==
    IF Get(child, "history", <<NoFields>>) # <<>>
    THEN _clean_html(Get(First(Get(child, "history", <<NoFields>>)), "content", <<>>))
    ELSE ""

AnswerType(child) == IF Get(child, "type", None) = "i_answer" THEN "instructor" ELSE "student"

\* the answer PostFetcher._extract_answers appends for a child
FetcherAnswer(child) ==
    [type |-> AnswerType(child), content |-> AnswerContent(child),
     created_at |-> Get(child, "created", ""),
     endorsements |-> Len(Get(child, "tag_endorse", <<>>))]

\* the answer BrowserScraper._parse_post and APIScraper._parse_post append
ScraperAnswer(child) ==
    [type |-> AnswerType(child), content |-> AnswerContent(child),
     created_at |-> Get(child, "created", "")]

\* the answers appended for the answer children
FetcherAnswers(children) == [k \in 1..Len(children) |-> FetcherAnswer(children[k])]
ScraperAnswers(children) == [k \in 1..Len(children) |-> ScraperAnswer(children[k])]

\* PostFetcher._extract_answers
_extract_answers(post_data) ==
    FetcherAnswers(SelectSeq(Get(post_data, "children", <<>>), IsAnswer))

\* the reply appended for a feedback child of a followup
ReplyOf(reply) ==
    [content |-> _clean_html(Get(reply, "subject", <<>>)),
     created_at |-> Get(reply, "created", "")]

Replies(children) == [k \in 1..Len(children) |-> ReplyOf(children[k])]

\* the followup appended for a followup child
FollowupOf(child) ==
    [content |-> _clean_html(Get(child, "subject", <<>>)),
     created_at |-> Get(child, "created", ""),
     replies |-> Replies(SelectSeq(Get(child, "children", <<>>), IsFeedback))]

Followups(children) == [k \in 1..Len(children) |-> FollowupOf(children[k])]

\* PostFetcher._extract_followups, and the followups loop of the scrapers
_extract_followups(post_data) ==
    Followups(SelectSeq(Get(post_data, "children", <<>>), IsFollowup))

\* the answers loop of BrowserScraper._parse_post and APIScraper._parse_post
ScraperAnswersOf(post_data) ==
    ScraperAnswers(SelectSeq(Get(post_data, "children", <<>>), IsAnswer))

\* latest = history[0] if history else {}, with history defaulting to [{}]
Latest(post_data) == First(Get(post_data, "history", <<NoFields>>))

\* the fields every _parse_post sets
ParsedFields(post_data, answers) ==
    [id |-> Get(post_data, "id", ""),
     nr |-> Get(post_data, "nr", 0),
     title |-> Get(Latest(post_data), "subject", ""),
     content |-> _clean_html(Get(Latest(post_data), "content", <<>>)),
     type |-> Get(post_data, "type", ""),
     folders |-> Get(post_data, "folders", <<>>),
     tags |-> Get(post_data, "tags", <<>>),
     created_at |-> Get(post_data, "created", ""),
     updated_at |-> Get(post_data, "updated", ""),
     num_favorites |-> Get(post_data, "num_favorites", 0),
     unique_views |-> Get(post_data, "unique_views", 0),
     answers |-> answers,
     followups |-> _extract_followups(post_data),
     is_resolved |-> (Get(post_data, "no_answer", 0) = 0)]

\* PostFetcher._parse_post
PostFetcher_parse_post(post_data) ==
    ("author_role" :> _extract_author_role(post_data))
        @@ ParsedFields(post_data, _extract_answers(post_data))

\* BrowserScraper._parse_post
BrowserScraper_parse_post(post_data) == ParsedFields(post_data, ScraperAnswersOf(post_data))

\* APIScraper._parse_post
APIScraper_parse_post(post_data) == ParsedFields(post_data, ScraperAnswersOf(post_data))

\* the version of a post in its history: subject, content, and the author
RawVersion(subject, content, anon) ==
    [subject |-> subject, content |-> content, anon |-> anon, uid |-> "u1"]

\* the histories of raw posts: empty, a version of a named author, of a fully
\* anonymous one, one without uid, and one whose text has markup
Histories ==
    { <<>>,
      <<RawVersion("pset 3 q2", <<"how do I start?">>, "no")>>,
      <<RawVersion("random", <<" see pset3 ", "\n", "part 2 ">>, "full")>>,
      <<Without(RawVersion("hw3 Q2A", <<>>, "no"), {"uid"})>> }

\* the children of raw posts: none, or two answers and a followup with a reply
Children ==
    { <<>>,
      << [type |-> "i_answer", history |-> <<[content |-> <<"use ", "q2">>]>>,
          tag_endorse |-> <<"u2", "u3">>],
         [type |-> "followup", subject |-> <<"why?">>,
          children |-> <<[type |-> "feedback", subject |-> <<" because ">>]>>],
         [type |-> "s_answer", history |-> <<>>] >> }

\* the dicts the Piazza API returns for a post, with and without the keys
\* history and bucket_name
RawPosts ==
    LET full == { [id |-> "p1", nr |-> 1, type |-> t, folders |-> f, tags |-> <<>>,
                   history |-> h, bucket_name |-> b, no_answer |-> n, children |-> c] :
                    t \in {"question", "note"}, f \in {<<>>, <<"hw3">>}, h \in Histories,
                    b \in {"Instructors", "Week 1"}, n \in {0, 1}, c \in Children }
    IN  full \cup {Without(raw, {"history", "bucket_name"}) : raw \in full}

Scrapers == {"PostFetcher", "BrowserScraper", "APIScraper"}

\* scraper._parse_post(post_data)
ParsePost(scraper, post_data) ==
    CASE scraper = "PostFetcher" -> PostFetcher_parse_post(post_data)
      [] scraper = "BrowserScraper" -> BrowserScraper_parse_post(post_data)
      [] scraper = "APIScraper" -> APIScraper_parse_post(post_data)

\* posts = scraper.fetch_all_posts(): one post parsed by one of the scrapers
InitFetch ==
    /\ InitProcessor
    /\ posts \in {<<ParsePost(scraper, raw)>> : scraper \in Scrapers, raw \in RawPosts}
    /\ categorized = EmptyDict
    /\ pset = None
    /\ problem = None
    /\ result = None
    /\ last = "__init__"
    /\ store = NoStore
    /\ fetch = NoFetch
    /\ auth = NoAuth
    /\ calls = NoCalls
    /\ run = NoRun

NextFetch ==
    \/ CategorizePosts(posts)
    \/ GetStatistics
    \/ FilterStudentPosts

SpecFetch == InitFetch /\ [][NextFetch]_vars

(* C18: every post the fetch stage hands to the categorizer has the field  *)
(* author_role, and its value is student, instructor, ta or anonymous.     *)
C18_AuthorRole ==
    \A i \in 1..Len(posts) :
        /\ "author_role" \in DOMAIN posts[i]
        /\ posts[i].author_role \in {"student", "instructor", "ta", "anonymous"}

\* the input position of the first post of the list under top-level key a,
\* and in bucket a/p
FirstUnder(a) == Min({e.post.nr : e \in {x \in Entries(categorized) : x.a = a}})
FirstIn(a, p) ==
    Min({e.post.nr : e \in {x \in Entries(categorized) : x.a = a /\ x.p = p}})

\* the top-level keys at i and j are in the order of their first posts
TopInOrder(i, j) == FirstUnder(categorized[i][1]) < FirstUnder(categorized[j][1])

\* under every top-level key the problem keys are in the order of their
\* first posts
ProblemsInOrder ==
    \A i \in 1..Len(categorized) :
        \A j, k \in 1..Len(categorized[i][2]) :
            j < k => FirstIn(categorized[i][1], categorized[i][2][j][1])
                        < FirstIn(categorized[i][1], categorized[i][2][k][1])

(* C19 as stated: the top-level keys of the tree categorize_posts returns, *)
(* uncategorized among them, are in the order of the input positions of    *)
(* the first post under each, and so are the problem keys of every         *)
(* assignment.                                                             *)
C19_KeysByFirstPost ==
    Categorized =>
        /\ \A i, j \in 1..Len(categorized) : i < j => TopInOrder(i, j)
        /\ ProblemsInOrder

(* C19, amended: the assignment keys are in the order of the input         *)
(* positions of the first post under each, the key uncategorized, when     *)
(* there is one, comes after all of them, and the problem keys of every    *)
(* top-level key are in the order of the first post of each bucket.        *)
C19_KeysByFirstPostUncategorizedLast ==
    Categorized =>
        /\ \A i, j \in 1..Len(categorized) :
              (i < j /\ categorized[i][1] # "uncategorized"
                     /\ categorized[j][1] # "uncategorized") => TopInOrder(i, j)
        /\ Has(categorized, "uncategorized") =>
              categorized[Len(categorized)][1] = "uncategorized"
        /\ ProblemsInOrder

\* a post without an assignment before a post of pset3: pset3 is the first
\* key and uncategorized the second
C19_Witness ==
    /\ Categorized
    /\ Len(posts) = 2
    /\ PsetOf(1) = None /\ PsetOf(2) = "pset3"
    /\ Keys(categorized) = <<"pset3", "uncategorized">>

-----------------------------------------------------------------------------
(* Posts with one searched string that several patterns match.             *)

ManyMatches ==
    {"hw3 pset2", "pset2 hw3", "pset2 pset5", "hw10 pset1", "homework 4 hw 5",
     "assignment 7 homework 8 problem set 9", "problem set 6 pset 2",
     "(1a) q2", "p.3 question 4b", "q1 q2", "part 2.5 (3)", "(3) p4", "prob 7 (8)",
     "hw3 q1 pset2 (4)", "HW 3 Q1B PSET 2", "nothing here"}

\* the post whose one string, in field where, is text
OneString(where, text) ==
    CASE where = "folders" -> Post(1, <<text>>, <<>>, "", "")
      [] where = "tags" -> Post(1, <<>>, <<text>>, "", "")
      [] where = "title" -> Post(1, <<>>, <<>>, text, "")
      [] where = "content" -> Post(1, <<>>, <<>>, "", text)

InitPrecedence ==
    /\ InitProcessor
    /\ posts \in {<<OneString(where, text)>> :
                     where \in {"folders", "tags", "title", "content"}, text \in ManyMatches}
    /\ categorized = EmptyDict
    /\ pset = None
    /\ problem = None
    /\ result = None
    /\ last = "__init__"
    /\ store = NoStore
    /\ fetch = NoFetch
    /\ auth = NoAuth
    /\ calls = NoCalls
    /\ run = NoRun

NextPrecedence == CategorizePosts(posts)

SpecPrecedence == InitPrecedence /\ [][NextPrecedence]_vars

\* the one string of the post, and whether it is where _extract_problem looks
TheString ==
    CHOOSE t \in ManyMatches :
        t \in {ThePost.title, ThePost.content}
            \cup {ThePost.folders[i] : i \in 1..Len(ThePost.folders)}
            \cup {ThePost.tags[i] : i \in 1..Len(ThePost.tags)}
InTheTags == ThePost.tags # <<>>

\* the patterns that match text somewhere
Matching(patterns, text) == {k \in 1..Len(patterns) : Search(patterns[k], text).ok}

\* pattern re matches text at position i
MatchesAt(re, text, i) == MatchAt(re, 1, text, Fold(re, text), i, i, [b |-> 1, e |-> 1])

\* the token that the earliest of the patterns that match text captures at
\* the leftmost position where it matches
EarliestLeftmost(patterns, text) ==
    LET re == patterns[Min(Matching(patterns, text))]
        at == Min({i \in 1..Len(text) : MatchesAt(re, text, i).ok})
    IN  MatchesAt(re, text, at).group

(* C20: of a string that several patterns match, extraction returns the    *)
(* token of the earliest configured pattern that matches anywhere in it,   *)
(* whether or not a later pattern matches further left or captures a       *)
(* longer token, and of the matches of that pattern the leftmost one:      *)
(* "hw3 pset2" gives pset2, "pset2 pset5" gives pset2.                     *)
C20_FirstPatternWins ==
    Categorized =>
        /\ pset = IF Matching(pset_patterns, TheString) = {} THEN None
                  ELSE "pset" \o EarliestLeftmost(pset_patterns, TheString)
        /\ problem = IF InTheTags \/ Matching(problem_patterns, TheString) = {} THEN None
                     ELSE "problem" \o Lower(EarliestLeftmost(problem_patterns, TheString))
        /\ TheString \in {"hw3 pset2", "pset2 hw3", "pset2 pset5"} => pset = "pset2"
        /\ TheString = "hw10 pset1" => pset = "pset1"
        /\ (TheString = "(1a) q2" /\ ~InTheTags) => problem = "problem2"
        /\ (TheString = "q1 q2" /\ ~InTheTags) => problem = "problem1"

\* the title "hw10 pset1": the third pattern matches further left and
\* captures a longer token, the first pattern gives pset1
C20_Witness ==
    /\ Categorized
    /\ ThePost.title = "hw10 pset1"
    /\ Search(pset_patterns[3], ThePost.title).start < Search(pset_patterns[1], ThePost.title).start
    /\ Search(pset_patterns[3], ThePost.title).group = "10"
    /\ pset = "pset1"

-----------------------------------------------------------------------------
(* The trees as objects.  store.heap[a] is the object at address a: a dict *)
(* object is the sequence of its <<key, address>> items, a list object the *)
(* sequence of its posts.  store.tree is the address the caller's name     *)
(* categorized holds, store.given the address handed to the latest call.   *)

MaxObjects == 12

\* the address of the next object made
New(h) == Len(h) + 1

\* a new object
Alloc(h, obj) == Append(h, obj)

\* d[key] = v for the dict object at address d
SetItem(h, d, key, v) == [h EXCEPT ![d] = Put(h[d], key, v)]

\* the buckets of one assignment of the returned tree, from bucket j on:
\* dict(problems) at address d, holding the lists that the loop appended to
RECURSIVE BuildProblems(_, _, _, _)
BuildProblems(h, problems, d, j) ==
    IF j > Len(problems) THEN h
    ELSE BuildProblems(SetItem(Alloc(h, problems[j][2]), d, problems[j][1], New(h)),
                       problems, d, j + 1)

\* result = {pset: dict(problems) for pset, problems in categorized.items()},
\* from key i on; the dict result is at address t
RECURSIVE BuildTree(_, _, _, _)
BuildTree(h, tree, t, i) ==
    IF i > Len(tree) THEN h
    ELSE BuildTree(BuildProblems(SetItem(Alloc(h, EmptyDict), t, tree[i][1], New(h)),
                                 tree[i][2], New(h), 1),
                   tree, t, i + 1)

\* categorize_posts(list) with the objects of the tree it returns; the
\* tree is at address New(h)
StoreCategorize(self, h, list) ==
    BuildTree(Alloc(h, EmptyDict), categorize_posts(self, list), New(h), 1)

\* "if student_posts: filtered[pset][problem] = student_posts"
KeepStudents(h, d, key, student_posts) ==
    IF h[student_posts] # <<>> THEN SetItem(h, d, key, student_posts) ELSE h

\* HeapFilterProblems that stores the list it was given when every post of
\* it is a student's
RECURSIVE HeapFilterProblems_shared(_, _, _, _)
HeapFilterProblems_shared(h, problems, d, j) ==
    IF j > Len(h[problems]) THEN h
    ELSE HeapFilterProblems_shared(
             IF StudentPosts(h[h[problems][j][2]]) = h[h[problems][j][2]]
             THEN KeepStudents(h, d, h[problems][j][1], h[problems][j][2])
             ELSE KeepStudents(Alloc(h, StudentPosts(h[h[problems][j][2]])),
                               d, h[problems][j][1], New(h)),
             problems, d, j + 1)

\* the inner loop of filter_student_posts from item j of the dict object
\* problems on; d is the address of filtered[pset]
RECURSIVE HeapFilterProblems(_, _, _, _)
HeapFilterProblems(h, problems, d, j) ==
    IF j > Len(h[problems]) THEN h
    ELSE HeapFilterProblems(
             KeepStudents(Alloc(h, StudentPosts(h[h[problems][j][2]])),
                          d, h[problems][j][1], New(h)),
             problems, d, j + 1)

\* the outer loop of filter_student_posts from item i of the dict object
\* tree on; filtered is the address of the dict filtered
RECURSIVE HeapFilterLoop(_, _, _, _)
HeapFilterLoop(h, tree, filtered, i) ==
    IF i > Len(h[tree]) THEN h
    ELSE HeapFilterLoop(
             HeapFilterProblems(SetItem(Alloc(h, EmptyDict), filtered, h[tree][i][1], New(h)),
                                h[tree][i][2], New(h), 1),
             tree, filtered, i + 1)

\* filter_student_posts(categorized) on the objects; the dict it returns
\* is at address New(h)
StoreFilter(h, tree) == HeapFilterLoop(Alloc(h, EmptyDict), tree, New(h), 1)

\* the buckets of the dict object at address d, as a value
ProblemsAt(h, d) == [j \in 1..Len(h[d]) |-> <<h[d][j][1], h[h[d][j][2]]>>]

\* the tree at address t, as a value
TreeAt(h, t) == [i \in 1..Len(h[t]) |-> <<h[t][i][1], ProblemsAt(h, h[t][i][2])>>]

\* categorized = processor.categorize_posts(posts), the objects followed
CategorizeStored ==
    /\ Len(store.heap) < MaxObjects
    /\ store' = [heap |-> StoreCategorize(Self, store.heap, posts),
                 tree |-> New(store.heap), given |-> store.given]
    /\ categorized' = TreeAt(store'.heap, store'.tree)
    /\ result' = categorized'
    /\ pset' = IF posts = <<>> THEN pset
               ELSE _extract_pset(pset_patterns, posts[Len(posts)])
    /\ problem' = IF posts = <<>> THEN problem
                  ELSE _extract_problem(problem_patterns, posts[Len(posts)])
    /\ last' = "categorize_posts"
    /\ UNCHANGED <<pset_patterns, problem_patterns, posts, fetch, auth, calls, run>>

\* stats = processor.get_statistics(categorized), the objects followed:
\* the method reads the tree and stores to its own dict stats only
GetStatisticsStored ==
    /\ store' = [store EXCEPT !.given = store.tree]
    /\ result' = get_statistics(TreeAt(store.heap, store.tree))
    /\ last' = "get_statistics"
    /\ UNCHANGED <<pset_patterns, problem_patterns, posts, categorized, pset, problem, fetch, auth, calls, run>>

\* categorized = processor.filter_student_posts(categorized), the objects
\* followed
FilterStudentPostsStored ==
    /\ Len(store.heap) < MaxObjects
    /\ store' = [heap |-> StoreFilter(store.heap, store.tree),
                 tree |-> New(store.heap), given |-> store.tree]
    /\ categorized' = TreeAt(store'.heap, store'.tree)
    /\ result' = categorized'
    /\ last' = "filter_student_posts"
    /\ UNCHANGED <<pset_patterns, problem_patterns, posts, pset, problem, fetch, auth, calls, run>>

\* a fetched list of up to MaxPosts posts; categorized = {} is an object
InitStore ==
    /\ InitProcessor
    /\ posts \in {<<>>} \cup {<<Numbered(p, 1)>> : p \in ListPosts}
                 \cup {<<Numbered(p, 1), Numbered(q, 2)>> : p, q \in ListPosts}
    /\ categorized = EmptyDict
    /\ pset = None
    /\ problem = None
    /\ result = None
    /\ last = "__init__"
    /\ store = [heap |-> <<EmptyDict>>, tree |-> 1, given |-> 0]
    /\ fetch = NoFetch
    /\ auth = NoAuth
    /\ calls = NoCalls
    /\ run = NoRun

NextStore ==
    \/ CategorizeStored
    \/ GetStatisticsStored
    \/ FilterStudentPostsStored

SpecStore == InitStore /\ [][NextStore]_vars

\* the addresses of the inner dicts and of the lists of the tree at t
DictsOf(h, t) == {h[t][i][2] : i \in 1..Len(h[t])}
ListsOf(h, t) == UNION {{h[d][j][2] : j \in 1..Len(h[d])} : d \in DictsOf(h, t)}
ObjectsOf(h, t) == {t} \cup DictsOf(h, t) \cup ListsOf(h, t)

(* C15: filter_student_posts and get_statistics leave every object of the  *)
(* tree they are given as it was, so the given tree has the keys, buckets  *)
(* and posts in the order it had; the tree filter_student_posts returns    *)
(* shares no dict and no list with the given tree.                         *)
C15_GivenTreeUntouched ==
    [][ last' \in {"filter_student_posts", "get_statistics"} =>
          /\ store'.given = store.tree
          /\ \A a \in ObjectsOf(store.heap, store.tree) : store'.heap[a] = store.heap[a]
          /\ TreeAt(store'.heap, store'.given) = TreeAt(store.heap, store.tree)
          /\ last' = "filter_student_posts" =>
                 /\ store'.tree # store'.given
                 /\ ObjectsOf(store'.heap, store'.tree)
                        \cap ObjectsOf(store'.heap, store'.given) = {}
                 /\ TreeAt(store'.heap, store'.tree) = filter_student_posts(categorized)
      ]_vars

\* a filter that dropped a post and kept another bucket whole, in a list
\* that is not the given one
C15_Witness ==
    /\ last = "filter_student_posts"
    /\ TreeAt(store.heap, store.tree) # TreeAt(store.heap, store.given)
    /\ \E a \in ListsOf(store.heap, store.given), b \in ListsOf(store.heap, store.tree) :
           a # b /\ store.heap[a] = store.heap[b]

-----------------------------------------------------------------------------
(* Posts with two folders or two tags.                                     *)

Labels ==
    {"hw3", "pset2", "logistics", "homework 4", "assignment 7", "pset5 (1a)",
     "q2", "p.3", "(1a)", "part 4 hw1"}

\* the post whose folders, or tags, are the two labels
TwoLabels(where, a, b) ==
    IF where = "folders" THEN Post(1, <<a, b>>, <<>>, "", "")
    ELSE Post(1, <<>>, <<a, b>>, "", "")

InitLabels ==
    /\ InitProcessor
    /\ posts \in {<<TwoLabels(where, a, b)>> :
                     where \in {"folders", "tags"}, a \in Labels, b \in Labels}
    /\ categorized = EmptyDict
    /\ pset = None
    /\ problem = None
    /\ result = None
    /\ last = "__init__"
    /\ store = NoStore
    /\ fetch = NoFetch
    /\ auth = NoAuth
    /\ calls = NoCalls
    /\ run = NoRun

NextLabels == CategorizePosts(posts)

SpecLabels == InitLabels /\ [][NextLabels]_vars

\* the labels of the post, in sequence
TheLabels == ThePost.folders \o ThePost.tags

\* the identifier of the first of the labels that some pattern matches:
\* the token of the earliest pattern that matches that label
FirstLabel(patterns, labels, none) ==
    IF Matching(patterns, labels[1]) # {} THEN EarliestLeftmost(patterns, labels[1])
    ELSE IF Matching(patterns, labels[2]) # {} THEN EarliestLeftmost(patterns, labels[2])
    ELSE none

(* C21: the folders, and the tags, are examined in sequence and every      *)
(* pattern is tried on one label before the next label is looked at: the   *)
(* identifier is that of the first label that any pattern matches, so      *)
(* folders ["hw3", "pset2"] give pset3; the problem comes from the folders *)
(* in the same way and never from the tags.                                *)
C21_LabelBeforePattern ==
    Categorized =>
        /\ pset = IF FirstLabel(pset_patterns, TheLabels, None) = None THEN None
                  ELSE "pset" \o FirstLabel(pset_patterns, TheLabels, None)
        /\ problem = IF ThePost.folders = <<>>
                        \/ FirstLabel(problem_patterns, TheLabels, None) = None THEN None
                     ELSE "problem" \o Lower(FirstLabel(problem_patterns, TheLabels, None))
        /\ TheLabels = <<"hw3", "pset2">> => pset = "pset3"
        /\ TheLabels = <<"pset2", "hw3">> => pset = "pset2"
        /\ ThePost.folders = <<"(1a)", "q2">> => problem = "problem1a"

\* folders ["hw3", "pset2"]: the second folder matches the first pattern,
\* the first folder only the third, and the post is of pset3
C21_Witness ==
    /\ Categorized
    /\ ThePost.folders = <<"hw3", "pset2">>
    /\ Matching(pset_patterns, "hw3") = {3}
    /\ 1 \in Matching(pset_patterns, "pset2")
    /\ pset = "pset3"

-----------------------------------------------------------------------------
(* fetch_all_posts.  A feed item is [id, served]: the id of the feed entry *)
(* ("" for an entry without id) and what content.get returns for it, a raw *)
(* post or nothing.  The limit is an Optional[int]: <<>> is None, <<n>>    *)
(* the number n.                                                           *)

MaxFeed == 3
MaxLimit == 4

\* "if limit:" is false for None and for 0
LimitTruthy(limit) == limit # <<>> /\ limit[1] # 0

\* feed_items[:limit] for a limit that is not negative
UpTo(feed_items, limit) == SubSeq(feed_items, 1, Min({limit, Len(feed_items)}))

\* "if limit: feed_items = feed_items[:limit]"
Limited(feed_items, limit) ==
    IF LimitTruthy(limit) THEN UpTo(feed_items, limit[1]) ELSE feed_items

\* "if post_id: ... if raw_post:": the item has an id and content.get served
\* a post for it
Fetched(item) == Truthy(item.id) /\ item.served # NoFields

\* the loop over the feed items from item i on: the parsed posts, appended
RECURSIVE FetchLoop(_, _, _, _)
FetchLoop(scraper, feed_items, i, fetched) ==
    IF i > Len(feed_items) THEN fetched
    ELSE FetchLoop(scraper, feed_items, i + 1,
                   IF Fetched(feed_items[i])
                   THEN Append(fetched, ParsePost(scraper, feed_items[i].served))
                   ELSE fetched)

\* scraper.fetch_all_posts(limit) when the feed of the network is feed
fetch_all_posts(scraper, feed, limit) == FetchLoop(scraper, Limited(feed, limit), 1, <<>>)

\* the raw post with number nr
Raw(nr, id, subject) ==
    [id |-> id, nr |-> nr, type |-> "question", folders |-> <<"hw3">>, tags |-> <<>>,
     history |-> <<RawVersion(subject, <<"how do I start?">>, "no")>>,
     bucket_name |-> "Week 1", no_answer |-> 0, children |-> <<>>]

\* feed entries: two that are served, one that is not, one without id
FeedItems ==
    { [id |-> "p1", served |-> Raw(1, "p1", "pset 3 q2")],
      [id |-> "p2", served |-> Raw(2, "p2", "random")],
      [id |-> "p3", served |-> NoFields],
      [id |-> "", served |-> NoFields] }

Feeds == UNION {[1..n -> FeedItems] : n \in 0..MaxFeed}
Limits == {<<>>} \cup {<<n>> : n \in 0..MaxLimit}

\* posts = scraper.fetch_all_posts(limit=args.limit)   (main.py, cmd_scrape)
FetchAllPosts ==
    /\ posts' = fetch_all_posts(fetch.scraper, fetch.feed, fetch.limit)
    /\ result' = posts'
    /\ last' = "fetch_all_posts"
    /\ UNCHANGED <<pset_patterns, problem_patterns, categorized, pset, problem, store, fetch, auth, calls, run>>

\* a run of one scraper on one feed with one --limit
InitLimit ==
    /\ InitProcessor
    /\ posts = <<>>
    /\ categorized = EmptyDict
    /\ pset = None
    /\ problem = None
    /\ result = None
    /\ last = "__init__"
    /\ store = NoStore
    /\ fetch \in [scraper : Scrapers, feed : Feeds, limit : Limits]
    /\ auth = NoAuth
    /\ calls = NoCalls
    /\ run = NoRun

NextLimit ==
    \/ FetchAllPosts
    \/ CategorizePosts(posts)

SpecLimit == InitLimit /\ [][NextLimit]_vars

\* the fetched ones of the first n feed items, in feed order
FetchedOfFirst(n) ==
    LET first == [i \in 1..Min({n, Len(fetch.feed)}) |-> fetch.feed[i]]
    IN  [i \in 1..Len(SelectSeq(first, Fetched)) |->
            ParsePost(fetch.scraper, SelectSeq(first, Fetched)[i].served)]

(* C22: a fetch_all_posts call with a limit that is not negative returns   *)
(* at most that many posts, and they are the fetched ones of the first     *)
(* `limit` feed items, in feed order.                                      *)
C22_AtMostLimit ==
    (last = "fetch_all_posts" /\ fetch.limit # <<>>) =>
        /\ Len(posts) <= fetch.limit[1]
        /\ posts = FetchedOfFirst(fetch.limit[1])

-----------------------------------------------------------------------------
(* PiazzaAuth.  auth._authenticated and auth._session are the fields of    *)
(* the object, auth.rpc_session is self.piazza._rpc.session; a session is  *)
(* named by where it comes from.  auth.returned is the value the latest    *)
(* call returned ("True", "False", "Network", "NetworkAccessor", "list"),  *)
(* auth.raised the exception it raised, None if it returned.               *)

\* PiazzaAuth.__init__(email, password): Piazza() comes with a session of
\* its own
NewPiazzaAuth(email, password) ==
    [email |-> email, password |-> password, _authenticated |-> FALSE, _session |-> None,
     rpc_session |-> "session of Piazza()", returned |-> None, raised |-> None]

\* config.PIAZZA_EMAIL and config.PIAZZA_PASSWORD: unset, or of an account
Accounts == {<<None, None>>, <<"student@mit.edu", "secret">>, <<"ta@mit.edu", "hunter2">>}

\* the cookie dicts handed to login_with_cookies
CookieJars == {"cookies of tab 1", "cookies of tab 2"}

\* requests.Session() with the cookies set
SessionOf(cookies) == "session with " \o cookies

Returns(a, value) == [a EXCEPT !.returned = value, !.raised = None]
Raises(a, exception) == [a EXCEPT !.returned = None, !.raised = exception]

\* login(): user_login accepts the password or raises; without an email
\* it raises
login(a, accepted) ==
    IF accepted /\ Truthy(a.email)
    THEN Returns([a EXCEPT !._authenticated = TRUE, !._session = a.rpc_session], "True")
    ELSE Returns(a, "False")

\* the session is injected and the flag set
Injected(a, session) ==
    [a EXCEPT !.rpc_session = session, !._session = session, !._authenticated = TRUE]

\* login_with_cookies(cookies): the answer to user.status is an exception of
\* session.get, a status other than 200, a body without result, a result
\* that is a dict, or a result that is a list, a string or a number: then
\* user_info.get raises AttributeError after the flag is set, and the
\* except clause returns False
login_with_cookies(a, cookies, answer) ==
    CASE answer = "result" -> Returns(Injected(a, SessionOf(cookies)), "True")
      [] answer = "result that is no dict" ->
             Returns(Injected(a, SessionOf(cookies)), "False")
      [] OTHER -> Returns(a, "False")

\* login_with_cookie_file(cookie_file): the file is missing, is not JSON,
\* cannot be opened for another reason, or holds cookies
login_with_cookie_file(a, file, answer) ==
    CASE file \in {"FileNotFoundError", "JSONDecodeError"} -> Returns(a, "False")
      [] file = "PermissionError" -> Raises(a, "PermissionError")
      [] OTHER -> login_with_cookies(a, file, answer)

\* get_network(network_id): piazza.network returns the network or raises
get_network(a, reachable) ==
    IF ~a._authenticated THEN Raises(a, "RuntimeError")
    ELSE IF reachable THEN Returns(a, "Network")
    ELSE Raises(a, "Exception")

\* get_network_with_session(network_id)
get_network_with_session(a) ==
    IF ~a._authenticated \/ ~Truthy(a._session) THEN Raises(a, "RuntimeError")
    ELSE Returns(a, "NetworkAccessor")

\* list_user_classes(): the classes of piazza.get_user_classes or of
\* user.status, or the empty list
list_user_classes(a) ==
    IF ~a._authenticated THEN Raises(a, "RuntimeError")
    ELSE Returns(a, "list")

Answers == {"exception", "status 500", "no result", "result", "result that is no dict"}
CookieFiles == {"FileNotFoundError", "JSONDecodeError", "PermissionError"} \cup CookieJars

\* one call of a method of the PiazzaAuth object
Call(method, a) ==
    /\ auth' = a
    /\ last' = method
    /\ UNCHANGED <<pset_patterns, problem_patterns, posts, categorized, pset, problem,
                   result, store, fetch, calls, run>>

Login == \E accepted \in BOOLEAN : Call("login", login(auth, accepted))
LoginWithCookies ==
    \E cookies \in CookieJars, answer \in Answers :
        Call("login_with_cookies", login_with_cookies(auth, cookies, answer))
LoginWithCookieFile ==
    \E file \in CookieFiles, answer \in Answers :
        Call("login_with_cookie_file", login_with_cookie_file(auth, file, answer))
GetNetwork == \E reachable \in BOOLEAN : Call("get_network", get_network(auth, reachable))
GetNetworkWithSession == Call("get_network_with_session", get_network_with_session(auth))
ListUserClasses == Call("list_user_classes", list_user_classes(auth))

InitAuth ==
    /\ InitProcessor
    /\ posts = <<>>
    /\ categorized = EmptyDict
    /\ pset = None
    /\ problem = None
    /\ result = None
    /\ last = "__init__"
    /\ store = NoStore
    /\ fetch = NoFetch
    /\ auth \in {NewPiazzaAuth(account[1], account[2]) : account \in Accounts}
    /\ calls = NoCalls
    /\ run = NoRun

NextAuth ==
    \/ Login
    \/ LoginWithCookies
    \/ LoginWithCookieFile
    \/ GetNetwork
    \/ GetNetworkWithSession
    \/ ListUserClasses

SpecAuth == InitAuth /\ [][NextAuth]_vars

Logins == {"login", "login_with_cookies", "login_with_cookie_file"}
Guarded == {"get_network", "get_network_with_session", "list_user_classes"}

(* C23: as long as the flag is not set, get_network,                       *)
(* get_network_with_session and list_user_classes raise RuntimeError; the  *)
(* flag is set only by a login call that returns True, so it is not set    *)
(* before the first such call; a login call that returns False leaves the  *)
(* flag and the stored session as they were; whenever the flag is set the  *)
(* stored session is not None.                                             *)
C23_LoginBeforeAccess ==
    [][ /\ (last' \in Guarded /\ ~auth._authenticated) => auth'.raised = "RuntimeError"
        /\ (auth'._authenticated /\ ~auth._authenticated) =>
               (last' \in Logins /\ auth'.returned = "True")
        /\ (last' \in Logins /\ auth'.returned = "False") =>
               /\ auth'._authenticated = auth._authenticated
               /\ auth'._session = auth._session
        /\ auth'._authenticated => Truthy(auth'._session)
        /\ last' \notin Logins =>
               /\ auth'._authenticated = auth._authenticated
               /\ auth'._session = auth._session
      ]_vars

-----------------------------------------------------------------------------
(* Reserved keys.                                                          *)

\* the string s starts with the string p
StartsWith(s, p) == Len(s) >= Len(p) /\ SubSeq(s, 1, Len(p)) = p

\* the posts of the list, in list order, whose number is in the set
PostsAt(numbers) ==
    LET In(post) == post.nr \in numbers IN SelectSeq(posts, In)

\* the posts without an assignment, and those of assignment a without a
\* problem
Unassigned == {i \in 1..Len(posts) : PsetOf(i) = None}
General(a) == {i \in 1..Len(posts) : PsetOf(i) = a /\ ProblemOf(i) = None}

(* C24: every assignment identifier starts with "pset" and is not          *)
(* "uncategorized", every problem identifier starts with "problem" and is  *)
(* neither "general" nor "all"; so uncategorized/all holds exactly the     *)
(* posts without an assignment match, and <assignment>/general exactly the *)
(* posts of that assignment without a problem match.                       *)
C24_ReservedKeys ==
    Categorized =>
        /\ \A i \in 1..Len(posts) :
               /\ PsetOf(i) # None =>
                      StartsWith(PsetOf(i), "pset") /\ PsetOf(i) # "uncategorized"
               /\ ProblemOf(i) # None =>
                      StartsWith(ProblemOf(i), "problem") /\ ProblemOf(i) \notin {"general", "all"}
        /\ ItemOr(ItemOr(categorized, "uncategorized", EmptyDict), "all", <<>>)
               = PostsAt(Unassigned)
        /\ Has(categorized, "uncategorized") <=> Unassigned # {}
        /\ \A a \in KeySet(categorized) \ {"uncategorized"} :
               /\ ItemOr(Item(categorized, a), "general", <<>>) = PostsAt(General(a))
               /\ Has(Item(categorized, a), "general") <=> General(a) # {}
               /\ ~Has(Item(categorized, a), "all")
        /\ Has(categorized, "uncategorized") =>
               KeySet(Item(categorized, "uncategorized")) = {"all"}

\* a post with a problem but no assignment in uncategorized/all, and a post
\* of pset3 without a problem in pset3/general
C24_Witness ==
    /\ Categorized
    /\ Len(posts) = 2
    /\ PsetOf(1) = None /\ ProblemOf(1) = "problem2a"
    /\ PsetOf(2) = "pset3" /\ ProblemOf(2) = None
    /\ Item(Item(categorized, "uncategorized"), "all") = <<posts[1]>>
    /\ Item(Item(categorized, "pset3"), "general") = <<posts[2]>>

-----------------------------------------------------------------------------
(* The statistics of one tree agree with each other.                       *)

\* the sum of the values of a dict from item i on
RECURSIVE SumValues(_, _)
SumValues(d, i) == IF i > Len(d) THEN 0 ELSE d[i][2] + SumValues(d, i + 1)

(* C25: in the statistics of any tree resolved_count and unresolved_count  *)
(* add up to total_posts, so do the values of posts_by_pset and those of   *)
(* posts_by_type; posts_by_pset has one entry for each top-level key of    *)
(* the tree, uncategorized included, and total_psets is the number of      *)
(* these entries, less one if uncategorized is a key.                      *)
C25_StatisticsAgree ==
    last = "get_statistics" =>
        /\ result.resolved_count + result.unresolved_count = result.total_posts
        /\ SumValues(result.posts_by_pset, 1) = result.total_posts
        /\ SumValues(result.posts_by_type, 1) = result.total_posts
        /\ Keys(result.posts_by_pset) = Keys(categorized)
        /\ UniqueKeys(result.posts_by_pset)
        /\ result.total_psets =
               Len(result.posts_by_pset) - (IF Has(categorized, "uncategorized") THEN 1 ELSE 0)

\* two posts of one bucket of an assignment, one of them resolved, of two
\* types
C25_Witness ==
    /\ last = "get_statistics"
    /\ result.total_posts = 2
    /\ result.resolved_count = 1
    /\ Len(result.posts_by_type) = 2
    /\ \E a \in KeySet(categorized) : Len(Item(categorized, a)) = 1 /\ Item(result.posts_by_pset, a) = 2

-----------------------------------------------------------------------------
(* FeedbackAnalyzer.analyze_all.  The language model answers call number n *)
(* of analyze_problem with llm[n]: JSON, text that is no JSON, or an       *)
(* exception of the client.                                                *)

LLMAnswers == {"json", "no json", "exception"}

\* what analyze_problem returns for a bucket without posts
NoPostsAnalysis ==
    [sentiment |-> [score |-> None, summary |-> "No posts to analyze"],
     common_issues |-> <<>>, suggestions |-> <<>>,
     statistics |-> [total_posts |-> 0, resolved_count |-> 0, key_themes |-> <<>>]]

\* analyze_problem(posts, pset, problem) when the model answers with answer
analyze_problem(ps, a, p, answer) ==
    IF ps = <<>> THEN NoPostsAnalysis
    ELSE CASE answer = "json" -> [parsed |-> "analysis of " \o a \o " - " \o p]
           [] answer = "no json" ->
                  [error |-> "Failed to parse response", raw_response |-> "text"]
           [] answer = "exception" -> [error |-> "str(e)"]

\* analysis = self.analyze_problem(posts, pset, problem);
\* analysis_results[pset][problem] = analysis
Analyzed(acc, a, p, ps, llm) ==
    [results |-> Put(acc.results, a,
                     Put(Item(acc.results, a), p,
                         analyze_problem(ps, a, p, llm[Len(acc.calls) + 1]))),
     calls |-> Append(acc.calls, [posts |-> ps, pset |-> a, problem |-> p])]

\* "for problem, posts in problems.items():" from bucket j on
RECURSIVE AnalyzeProblems(_, _, _, _, _)
AnalyzeProblems(acc, a, problems, j, llm) ==
    IF j > Len(problems) THEN acc
    ELSE AnalyzeProblems(Analyzed(acc, a, problems[j][1], problems[j][2], llm),
                         a, problems, j + 1, llm)

\* "analysis_results[pset] = {}"
NewPset(acc, a) == [acc EXCEPT !.results = Put(@, a, EmptyDict)]

\* AnalyzeLoop without "if pset == "uncategorized": continue"
RECURSIVE AnalyzeLoop_every_key(_, _, _, _)
AnalyzeLoop_every_key(acc, tree, i, llm) ==
    IF i > Len(tree) THEN acc
    ELSE AnalyzeLoop_every_key(
             AnalyzeProblems(NewPset(acc, tree[i][1]), tree[i][1], tree[i][2], 1, llm),
             tree, i + 1, llm)

\* "for pset, problems in categorized_posts.items():" from key i on
RECURSIVE AnalyzeLoop(_, _, _, _)
AnalyzeLoop(acc, tree, i, llm) ==
    IF i > Len(tree) THEN acc
    ELSE IF tree[i][1] = "uncategorized" THEN AnalyzeLoop(acc, tree, i + 1, llm)
    ELSE AnalyzeLoop(
             AnalyzeProblems(NewPset(acc, tree[i][1]), tree[i][1], tree[i][2], 1, llm),
             tree, i + 1, llm)

\* analyze_all(categorized_posts): the dict it returns and the calls of
\* analyze_problem it makes
analyze_all(tree, llm) == AnalyzeLoop([results |-> EmptyDict, calls |-> <<>>], tree, 1, llm)

\* total_problems: sum(len(problems) for pset, problems in
\* categorized_posts.items() if pset != "uncategorized"), from key i on
RECURSIVE total_problems(_, _)
total_problems(tree, i) ==
    IF i > Len(tree) THEN 0
    ELSE (IF tree[i][1] # "uncategorized" THEN Len(tree[i][2]) ELSE 0)
             + total_problems(tree, i + 1)

\* analysis = analyzer.analyze_all(categorized)   (main.py, cmd_analyze);
\* the model has an answer for each of the total_problems buckets, and for
\* the bucket of uncategorized
AnalyzeAll ==
    \E llm \in [1..(total_problems(categorized, 1) + 1) -> LLMAnswers] :
        /\ result' = analyze_all(categorized, llm).results
        /\ calls' = analyze_all(categorized, llm).calls
        /\ last' = "analyze_all"
        /\ UNCHANGED <<pset_patterns, problem_patterns, posts, categorized, pset, problem,
                       store, fetch, auth, run>>

\* a fetched list of up to MaxPosts posts
InitAnalyze ==
    /\ InitProcessor
    /\ posts \in {[i \in 1..Len(list) |-> Numbered(list[i], i)] :
                     list \in UNION {[1..n -> ListPosts] : n \in 0..MaxPosts}}
    /\ categorized = EmptyDict
    /\ pset = None
    /\ problem = None
    /\ result = None
    /\ last = "__init__"
    /\ store = NoStore
    /\ fetch = NoFetch
    /\ auth = NoAuth
    /\ calls = NoCalls
    /\ run = NoRun

NextAnalyze ==
    \/ CategorizePosts(posts)
    \/ GetStatistics
    \/ FilterStudentPosts
    \/ AnalyzeAll

SpecAnalyze == InitAnalyze /\ [][NextAnalyze]_vars

\* the assignments of the tree none of whose posts a filter keeps
Emptied(tree) ==
    {a \in KeySet(tree) : \A p \in KeySet(Item(tree, a)) : StudentPosts(Item(Item(tree, a), p)) = <<>>}

(* C26: filter_student_posts keeps the top-level keys and their order; an  *)
(* assignment all of whose posts are filtered out stays as a key with an   *)
(* empty problem mapping; get_statistics then counts it in total_psets,    *)
(* with 0 in posts_by_pset, and analyze_all gives it an empty entry.       *)
C26_KeysSurviveFilter ==
    [][ /\ last' = "filter_student_posts" =>
               /\ Keys(categorized') = Keys(categorized)
               /\ \A a \in Emptied(categorized) : Item(categorized', a) = EmptyDict
        /\ last' = "get_statistics" =>
               /\ result'.total_psets
                      = Cardinality(KeySet(categorized) \ {"uncategorized"})
               /\ \A a \in KeySet(categorized) :
                      Item(categorized, a) = EmptyDict =>
                          Has(result'.posts_by_pset, a) /\ Item(result'.posts_by_pset, a) = 0
        /\ last' = "analyze_all" =>
               \A a \in KeySet(categorized) \ {"uncategorized"} :
                   Item(categorized, a) = EmptyDict =>
                       Has(result', a) /\ Item(result', a) = EmptyDict
      ]_vars

\* the analysis of a tree whose assignment pset3 lost its only post, an
\* instructor's, to the filter
C26_Witness ==
    /\ last = "analyze_all"
    /\ Len(posts) = 1 /\ posts[1].author_role = "instructor"
    /\ categorized = <<<<"pset3", EmptyDict>>>>
    /\ result = <<<<"pset3", EmptyDict>>>>

\* the buckets of the assignments of the tree, as <<assignment, problem,
\* posts>>, in tree order, from key i on
RECURSIVE BucketsInOrder(_, _)
BucketsInOrder(tree, i) ==
    IF i > Len(tree) THEN <<>>
    ELSE (IF tree[i][1] = "uncategorized" THEN <<>>
          ELSE [j \in 1..Len(tree[i][2]) |->
                   <<tree[i][1], tree[i][2][j][1], tree[i][2][j][2]>>])
             \o BucketsInOrder(tree, i + 1)

\* the assignment keys of the tree, in tree order
AssignmentKeys(tree) ==
    LET Assignment(key) == key # "uncategorized" IN SelectSeq(Keys(tree), Assignment)

(* C28: the result of analyze_all has the top-level keys of the tree other *)
(* than "uncategorized", and under each of them the problem keys of the    *)
(* tree; analyze_problem is called once for each bucket of an assignment,  *)
(* in tree order, and for no post held under uncategorized.                *)
C28_AnalysisFollowsTree ==
    last = "analyze_all" =>
        /\ Keys(result) = AssignmentKeys(categorized)
        /\ WellFormed(result)
        /\ \A a \in KeySet(result) : Keys(Item(result, a)) = Keys(Item(categorized, a))
        /\ [n \in 1..Len(calls) |-> <<calls[n].pset, calls[n].problem, calls[n].posts>>]
               = BucketsInOrder(categorized, 1)
        /\ \A n \in 1..Len(calls) : \A k \in 1..Len(calls[n].posts) :
               BucketsOf(categorized, calls[n].posts[k]) # {<<"uncategorized", "all">>}
        /\ ~Has(result, "uncategorized")

\* a tree with a post of pset3 and an uncategorized post: one call, for the
\* bucket of pset3
C28_Witness ==
    /\ last = "analyze_all"
    /\ KeySet(categorized) = {"pset3", "uncategorized"}
    /\ Keys(result) = <<"pset3">>
    /\ Len(calls) = 1
    /\ calls[1].pset = "pset3"

-----------------------------------------------------------------------------
(* The filter and the posts of the scrapers.                               *)

\* the post has the field author_role and its value is student or anonymous
RoleKept(post) ==
    "author_role" \in DOMAIN post /\ post.author_role \in {"student", "anonymous"}

(* C27: filter_student_posts keeps a post if and only if its author_role   *)
(* is "student" or "anonymous"; a post without the field, as              *)
(* BrowserScraper and APIScraper build it, is dropped without an error, so *)
(* a tree of such posts filters down to a tree without posts.              *)
C27_KeptIffStudent ==
    [][ last' = "filter_student_posts" =>
          /\ Entries(categorized') =
                 {e \in Entries(categorized) : RoleKept(e.post)}
          /\ (\A e \in Entries(categorized) : "author_role" \notin DOMAIN e.post)
                 => PostsOfTree(categorized', 1) = <<>>
      ]_vars

\* the post of BrowserScraper, without author_role, was in the tree and is
\* not in the filtered tree
C27_Witness ==
    /\ last = "filter_student_posts"
    /\ "author_role" \notin DOMAIN posts[1]
    /\ Len(categorized) = 1
    /\ PostsOfTree(categorized, 1) = <<>>

-----------------------------------------------------------------------------
(* Identifiers across the end of the content window.                       *)

\* the texts that name an assignment or a problem
Straddlers == {"pset12", "hw 34", "q12", "q2a", "part 2.5", "(1a)"}

\* the offsets (0-based) at which such a text starts in the content: around
\* the end of either window
StraddleOffsets == (292..301) \cup (492..501)

InitStraddle ==
    /\ InitProcessor
    /\ posts \in {<<Post(1, <<>>, <<>>, "", Pad(n) \o text)>> :
                     n \in StraddleOffsets, text \in Straddlers}
    /\ categorized = EmptyDict
    /\ pset = None
    /\ problem = None
    /\ result = None
    /\ last = "__init__"
    /\ store = NoStore
    /\ fetch = NoFetch
    /\ auth = NoAuth
    /\ calls = NoCalls
    /\ run = NoRun

NextStraddle == CategorizePosts(posts)

SpecStraddle == InitStraddle /\ [][NextStraddle]_vars

\* the characters of the content at the offsets below window
Inside(content, window) ==
    IF Len(content) <= window THEN content ELSE SubSeq(content, 1, window)

\* the content is n characters and then the text
TextAt(n, text) == ThePost.content = Pad(n) \o text

\* what the first matching pattern captures in the text, None if none matches
Captured(patterns, text) ==
    IF Matching(patterns, text) = {} THEN None ELSE EarliestLeftmost(patterns, text)

(* C30: the content is matched on the window only.  An identifier across   *)
(* the end of the window is matched on its part inside: "pset12" with the  *)
(* "2" at offset 500 gives pset1, and with the "1" at offset 500 nothing;  *)
(* the same for problems at offset 300.                                    *)
C30_WindowCutsIdentifier ==
    Categorized =>
        /\ pset = IF Captured(pset_patterns, Inside(ThePost.content, WindowPset)) = None
                  THEN None
                  ELSE "pset" \o Captured(pset_patterns, Inside(ThePost.content, WindowPset))
        /\ problem =
               IF Captured(problem_patterns, Inside(ThePost.content, WindowProblem)) = None
               THEN None
               ELSE "problem"
                        \o Lower(Captured(problem_patterns,
                                          Inside(ThePost.content, WindowProblem)))
        /\ TextAt(494, "pset12") => pset = "pset12"
        /\ TextAt(495, "pset12") => pset = "pset1"
        /\ TextAt(496, "pset12") => pset = None
        /\ TextAt(496, "hw 34") => pset = "pset3"
        /\ TextAt(497, "hw 34") => pset = None
        /\ TextAt(297, "q12") => problem = "problem12"
        /\ TextAt(298, "q12") => problem = "problem1"
        /\ TextAt(299, "q12") => problem = None
        /\ TextAt(297, "q2a") => problem = "problem2a"
        /\ TextAt(298, "q2a") => problem = "problem2"
        /\ TextAt(292, "part 2.5") => problem = "problem2.5"
        /\ TextAt(293, "part 2.5") => problem = "problem2"
        /\ TextAt(295, "part 2.5") => problem = None
        /\ TextAt(296, "(1a)") => problem = "problem1a"
        /\ TextAt(297, "(1a)") => problem = None

\* "pset12" with the "2" at offset 500: the post is of pset1
C30_Witness ==
    /\ Categorized
    /\ TextAt(495, "pset12")
    /\ CharAt(ThePost.content, 501) = "2"
    /\ pset = "pset1"

-----------------------------------------------------------------------------
(* main.py: the commands scrape, analyze and full.                         *)

\* the largest feed of a run of a command
MaxRunFeed == 2

LatestFile == "categorized_posts_latest.json"

\* the tree an earlier run left in categorized_posts_latest.json
EarlierTree == <<<<"pset9", <<<<"general", <<Post(9, <<"pset9">>, <<>>, "", "")>>>>>>>>>>

\* if result != 0 (a variant that lets every code pass)
Failed_never(code) == FALSE

\* cmd_full: if result != 0
Failed(code) == code # 0

\* if not posts (a variant that never stops)
NoPosts_never(list) == FALSE

\* cmd_scrape: if not posts
NoPosts(list) == list = <<>>

\* the data of the last write of the file, <<>> if it was never written
RECURSIVE LastWrite(_, _, _)
LastWrite(files, name, i) ==
    IF i = 0 THEN <<>>
    ELSE IF files[i][1] = name THEN <<files[i][2]>>
    ELSE LastWrite(files, name, i - 1)

\* processor.load_from_json(filename): the dict json.load reads back from what
\* json.dump wrote (keys are strings, values strings, numbers, booleans and
\* lists), <<>> when open() raises FileNotFoundError
load_from_json(r, filename) ==
    IF LastWrite(r.files, filename, Len(r.files)) # <<>>
    THEN LastWrite(r.files, filename, Len(r.files))
    ELSE IF filename = LatestFile /\ r.existed THEN <<EarlierTree>>
    ELSE <<>>

\* return code, out of cmd_scrape
ScrapeReturns(r, code) == [r EXCEPT !.pc = "cmd_scrape returned", !.scrape = <<code>>]

\* return code, out of cmd_analyze
AnalyzeReturns(r, code) == [r EXCEPT !.pc = "cmd_analyze returned", !.analyze = <<code>>]

\* main(): commands[args.command](args)
Main ==
    /\ run.pc = "idle"
    /\ run' = [run EXCEPT !.pc = IF run.command = "analyze" THEN "cmd_analyze" ELSE "cmd_scrape",
                          !.invoked = IF run.command = "full"
                                      THEN <<"cmd_full", "cmd_scrape">>
                                      ELSE <<"cmd_" \o run.command>>]
    /\ last' = "main"
    /\ UNCHANGED <<pset_patterns, problem_patterns, posts, categorized, pset, problem, result,
                   store, fetch, auth, calls>>

\* cmd_scrape: the saved session, or the interactive login
ScrapeLogin ==
    /\ run.pc = "cmd_scrape"
    /\ run' = IF ~run.session /\ ~run.interactive
              THEN ScrapeReturns(run, 1)
              ELSE [run EXCEPT !.pc = "fetch_all_posts"]
    /\ last' = "is_logged_in"
    /\ UNCHANGED <<pset_patterns, problem_patterns, posts, categorized, pset, problem, result,
                   store, fetch, auth, calls>>

\* cmd_scrape: posts = scraper.fetch_all_posts(limit=args.limit); if not posts: return 1
ScrapeFetch ==
    /\ run.pc = "fetch_all_posts"
    /\ posts' = fetch_all_posts("BrowserScraper", fetch.feed, fetch.limit)
    /\ result' = posts'
    /\ run' = IF NoPosts(posts')
              THEN ScrapeReturns(run, 1)
              ELSE [run EXCEPT !.pc = "categorize_posts"]
    /\ last' = "fetch_all_posts"
    /\ UNCHANGED <<pset_patterns, problem_patterns, categorized, pset, problem,
                   store, fetch, auth, calls>>

\* cmd_scrape: categorized = processor.categorize_posts(posts)
ScrapeCategorize ==
    /\ run.pc = "categorize_posts"
    /\ categorized' = categorize_posts(Self, posts)
    /\ result' = categorized'
    /\ pset' = IF posts = <<>> THEN pset
               ELSE _extract_pset(pset_patterns, posts[Len(posts)])
    /\ problem' = IF posts = <<>> THEN problem
                  ELSE _extract_problem(problem_patterns, posts[Len(posts)])
    /\ run' = [run EXCEPT !.pc = "get_statistics"]
    /\ last' = "categorize_posts"
    /\ UNCHANGED <<pset_patterns, problem_patterns, posts, store, fetch, auth, calls>>

\* cmd_scrape: stats = processor.get_statistics(categorized)
ScrapeStatistics ==
    /\ run.pc = "get_statistics"
    /\ result' = get_statistics(categorized)
    /\ run' = [run EXCEPT !.pc = "save_to_json"]
    /\ last' = "get_statistics"
    /\ UNCHANGED <<pset_patterns, problem_patterns, posts, categorized, pset, problem,
                   store, fetch, auth, calls>>

\* cmd_scrape: the three save_to_json calls, and return 0
ScrapeSave ==
    /\ run.pc = "save_to_json"
    /\ run' = ScrapeReturns(
                  [run EXCEPT !.files = run.files
                                  \o << <<"all_posts_<timestamp>.json", posts>>,
                                        <<"categorized_posts_<timestamp>.json", categorized>>,
                                        <<LatestFile, categorized>> >>],
                  0)
    /\ last' = "save_to_json"
    /\ UNCHANGED <<pset_patterns, problem_patterns, posts, categorized, pset, problem, result,
                   store, fetch, auth, calls>>

\* cmd_full: result = cmd_scrape(args); if result != 0: return result;
\* args.input = None; args.students_only = True; result = cmd_analyze(args)
FullAfterScrape ==
    /\ run.pc = "cmd_scrape returned"
    /\ run.command = "full"
    /\ run' = IF Failed(run.scrape[1])
              THEN [run EXCEPT !.pc = "done", !.code = run.scrape]
              ELSE [run EXCEPT !.pc = "cmd_analyze", !.input = None, !.students_only = TRUE,
                               !.invoked = Append(run.invoked, "cmd_analyze")]
    /\ last' = "cmd_full"
    /\ UNCHANGED <<pset_patterns, problem_patterns, posts, categorized, pset, problem, result,
                   store, fetch, auth, calls>>

\* cmd_analyze: the API key, and the tree loaded from args.input or the latest file
AnalyzeLoad ==
    /\ run.pc = "cmd_analyze"
    /\ IF ~run.api_key
       THEN run' = AnalyzeReturns(run, 1) /\ UNCHANGED categorized
       ELSE IF load_from_json(run, IF Truthy(run.input) THEN run.input ELSE LatestFile) = <<>>
       THEN run' = AnalyzeReturns(run, 1) /\ UNCHANGED categorized
       ELSE /\ categorized' =
                   load_from_json(run, IF Truthy(run.input) THEN run.input ELSE LatestFile)[1]
            /\ run' = [run EXCEPT !.pc = "filter_student_posts"]
    /\ last' = "load_from_json"
    /\ UNCHANGED <<pset_patterns, problem_patterns, posts, pset, problem, result,
                   store, fetch, auth, calls>>

\* cmd_analyze: if args.students_only: categorized = processor.filter_student_posts(categorized)
AnalyzeFilter ==
    /\ run.pc = "filter_student_posts"
    /\ categorized' = IF run.students_only THEN filter_student_posts(categorized)
                      ELSE categorized
    /\ run' = [run EXCEPT !.pc = "analyze_all"]
    /\ last' = "filter_student_posts"
    /\ UNCHANGED <<pset_patterns, problem_patterns, posts, pset, problem, result,
                   store, fetch, auth, calls>>

\* cmd_analyze: analysis = analyzer.analyze_all(categorized), the analysis and the
\* report saved, and return 0
AnalyzeRun ==
    /\ run.pc = "analyze_all"
    /\ \E llm \in [1..(total_problems(categorized, 1) + 1) -> LLMAnswers] :
           /\ result' = analyze_all(categorized, llm).results
           /\ calls' = analyze_all(categorized, llm).calls
    /\ run' = AnalyzeReturns(
                  [run EXCEPT !.files = run.files
                                  \o << <<"analysis_<timestamp>.json", result'>>,
                                        <<"analysis_latest.json", result'>>,
                                        <<"report_<timestamp>.md", "report">> >>],
                  0)
    /\ last' = "analyze_all"
    /\ UNCHANGED <<pset_patterns, problem_patterns, posts, categorized, pset, problem,
                   store, fetch, auth>>

\* the command returns its code to main(): cmd_scrape and cmd_analyze run alone,
\* and cmd_full after cmd_analyze (return result)
MainReturns ==
    /\ \/ run.pc = "cmd_scrape returned" /\ run.command = "scrape"
       \/ run.pc = "cmd_analyze returned"
    /\ run' = [run EXCEPT !.pc = "done",
                          !.code = IF run.pc = "cmd_scrape returned" THEN run.scrape
                                   ELSE run.analyze]
    /\ last' = "return"
    /\ UNCHANGED <<pset_patterns, problem_patterns, posts, categorized, pset, problem, result,
                   store, fetch, auth, calls>>

\* the feeds of a run: up to MaxRunFeed entries
RunFeeds == {feed \in Feeds : Len(feed) <= MaxRunFeed}

\* the commands and what they find: scrape and full with a feed and a session,
\* analyze with its arguments
Runs ==
    {[NoRun EXCEPT !.command = c, !.session = s, !.interactive = i, !.api_key = k,
                   !.existed = x] :
        c \in {"scrape", "full"}, s \in BOOLEAN, i \in BOOLEAN, k \in BOOLEAN, x \in BOOLEAN}
    \cup
    {[NoRun EXCEPT !.command = "analyze", !.api_key = k, !.existed = x, !.input = f,
                   !.students_only = o] :
        k \in BOOLEAN, x \in BOOLEAN, f \in {None, "other.json"}, o \in BOOLEAN}

InitRun ==
    /\ InitProcessor
    /\ posts = <<>>
    /\ categorized = EmptyDict
    /\ pset = None
    /\ problem = None
    /\ result = None
    /\ last = "__init__"
    /\ store = NoStore
    /\ fetch \in [scraper : {"BrowserScraper"}, feed : RunFeeds, limit : {<<>>, <<1>>}]
    /\ auth = NoAuth
    /\ calls = NoCalls
    /\ run \in Runs

NextRun ==
    \/ Main
    \/ ScrapeLogin
    \/ ScrapeFetch
    \/ ScrapeCategorize
    \/ ScrapeStatistics
    \/ ScrapeSave
    \/ FullAfterScrape
    \/ AnalyzeLoad
    \/ AnalyzeFilter
    \/ AnalyzeRun
    \/ MainReturns

SpecRun == InitRun /\ [][NextRun]_vars

\* the files of the run that were written under the name
WritesOf(name) == {i \in 1..Len(run.files) : run.files[i][1] = name}

\* the command has called cmd_analyze
AnalysisStarted == \E i \in 1..Len(run.invoked) : run.invoked[i] = "cmd_analyze"

\* the number of posts in the tree
RECURSIVE PostsInTree(_, _)
PostsInTree(tree, a) ==
    IF a > Len(tree) THEN 0
    ELSE SumValues([p \in 1..Len(tree[a][2]) |-> <<tree[a][2][p][1], Len(tree[a][2][p][2])>>], 1)
             + PostsInTree(tree, a + 1)

(* C29: cmd_full calls cmd_analyze only after cmd_scrape has returned 0;   *)
(* when cmd_scrape returns another code, cmd_analyze is not called and     *)
(* cmd_full returns that code.  When the fetched list is empty cmd_scrape  *)
(* returns 1 and no file is written, so every tree written to              *)
(* categorized_posts_latest.json was built from at least one post.         *)
C29_AnalysisAfterScrape ==
    /\ run.command = "full" /\ AnalysisStarted => run.scrape = <<0>>
    /\ run.command = "full" /\ run.scrape # <<>> /\ run.scrape # <<0>> =>
           /\ ~AnalysisStarted
           /\ run.pc = "done" => run.code = run.scrape
           /\ run.pc \in {"cmd_scrape returned", "done"}
    /\ run.command \in {"scrape", "full"} /\ run.scrape # <<>> /\ posts = <<>> =>
           /\ run.scrape = <<1>>
           /\ run.files = <<>>
    /\ \A i \in WritesOf(LatestFile) :
           /\ posts # <<>>
           /\ run.files[i][2] = categorize_posts(Self, posts)
           /\ PostsInTree(run.files[i][2], 1) = Len(posts)
           /\ Len(posts) >= 1

\* cmd_full has returned the 1 of a cmd_scrape that fetched nothing from a feed
\* that is not empty, and a cmd_full has started the analysis after its files
C29_Witness ==
    /\ run.command = "full"
    /\ run.pc = "done"
    /\ run.session
    /\ fetch.feed # <<>>
    /\ posts = <<>>
    /\ run.code = <<1>>
    /\ run.invoked = <<"cmd_full", "cmd_scrape">>

\* cmd_full has called cmd_analyze after cmd_scrape returned 0 and wrote its files
C29_WitnessAnalysis ==
    /\ run.command = "full"
    /\ AnalysisStarted
    /\ run.scrape = <<0>>
    /\ WritesOf(LatestFile) # {}

====
